---------------------------- MODULE Spec2Model ----------------------------
(***************************************************************************)
(* A model of the certificate mail-merge tool (CertificateGenerator).      *)
(*                                                                         *)
(* Strings are sequences of one-character strings, so that the regular     *)
(* expression scans, the case folding, the number formatting and the       *)
(* base64 coding are computed character by character as the code does.     *)
(* A spreadsheet cell is a tagged value: Str(s) or Num(n).  A record (one  *)
(* row of the sheet, a JavaScript object) is the sequence of its columns   *)
(* in Object.keys order, each [k |-> column name, v |-> cell].             *)
(*                                                                         *)
(* Spec       the local-storage revision of the component (src/src/App.tsx)*)
(* FairSpec   Spec with the event loop's fairness: a due timer, a pending  *)
(*            promise or file read is eventually run                       *)
(* MergeSpec, GenSpec, ExcelSpec, StoreSpec                                *)
(*            the pure functions, applied to inputs drawn from bounded sets*)
(***************************************************************************)
EXTENDS Integers, Sequences, FiniteSets

VARIABLES
    \* React state of the component (useState)
    data, docxTemplate, docxHtml, docxBinary, currentIndex, uploadStatus,
    placeholders, excelColumns, savedTemplates, selectedTemplateId,
    templateName, showSaveDialog, showRangeDialog, rangeStart, rangeEnd,
    \* the browser around it
    localStorage,   \* the value under the key 'certificateTemplates', or NULL
    mounted,        \* whether the mount effect has run
    now,            \* Date.now()
    docxJob,        \* the handleDocxUpload call suspended at an await, or NULL
    excelJob,       \* the FileReader read in flight, or NULL
    batches,        \* the batch downloads started: their timers and downloads
    lastOp,         \* what the handler or callback that ran last did
    \* the file-system-handle revision
    hasFileSystemSupport,   \* useState: 'showOpenFilePicker' in window
    fileHandles,    \* the records of the IndexedDB store 'fileHandles', by key
    loadJob,        \* the loadSavedFiles call suspended at an await, or NULL
    deleteJob,      \* the deleteTemplate call suspended at its await, or NULL
    \* the pure functions' harness
    call            \* [fn, pc, arguments, result] of the function under check

vars == <<data, docxTemplate, docxHtml, docxBinary, currentIndex, uploadStatus,
          placeholders, excelColumns, savedTemplates, selectedTemplateId,
          templateName, showSaveDialog, showRangeDialog, rangeStart, rangeEnd,
          localStorage, mounted, now, docxJob, excelJob, batches, lastOp,
          hasFileSystemSupport, fileHandles, loadJob, deleteJob, call>>

appVars == <<data, docxTemplate, docxHtml, docxBinary, currentIndex, uploadStatus,
             placeholders, excelColumns, savedTemplates, selectedTemplateId,
             templateName, showSaveDialog, showRangeDialog, rangeStart, rangeEnd,
             localStorage, mounted, now, docxJob, excelJob, batches, lastOp,
             hasFileSystemSupport, fileHandles, loadJob, deleteJob>>

\* null and undefined, where a record can stand
NULL == [null |-> TRUE]

\* null, where a string can stand: no string, for a string holds one
\* character in each place
NullString == <<"null">>

\* no alert
NoAlert == "none"

-----------------------------------------------------------------------------
(* Strings and values                                                      *)

Str(s) == [t |-> "str", s |-> s]
Num(n) == [t |-> "num", n |-> n]

UpperChars == <<"A","B","C","D","E","F","G","H","I","J","K","L","M",
                "N","O","P","Q","R","S","T","U","V","W","X","Y","Z">>
LowerChars == <<"a","b","c","d","e","f","g","h","i","j","k","l","m",
                "n","o","p","q","r","s","t","u","v","w","x","y","z">>
DigitChars == <<"0","1","2","3","4","5","6","7","8","9">>

\* String.prototype.toLowerCase, one character
LowerChar(c) ==
    IF \E i \in DOMAIN UpperChars : UpperChars[i] = c
    THEN LowerChars[CHOOSE i \in DOMAIN UpperChars : UpperChars[i] = c]
    ELSE c

\* String.prototype.toLowerCase
toLowerCase(s) == [i \in DOMAIN s |-> LowerChar(s[i])]

\* the characters \w matches
IsWordChar(c) ==
    \/ \E i \in DOMAIN UpperChars : UpperChars[i] = c
    \/ \E i \in DOMAIN LowerChars : LowerChars[i] = c
    \/ \E i \in DOMAIN DigitChars : DigitChars[i] = c
    \/ c = "_"

RECURSIVE NatToStr(_)
NatToStr(n) ==
    IF n < 10 THEN <<DigitChars[n + 1]>>
    ELSE NatToStr(n \div 10) \o <<DigitChars[(n % 10) + 1]>>

\* Number.prototype.toString for an integer
IntToStr(n) == IF n < 0 THEN <<"-">> \o NatToStr(0 - n) ELSE NatToStr(n)

\* value?.toString() || ''  (a cell is a string or a number, never undefined
\* for a key Object.keys returned)
CellText(v) == IF v.t = "num" THEN IntToStr(v.n) ELSE v.s

\* Object.keys(record)
Keys(record) == [i \in DOMAIN record |-> record[i].k]

\* all sequences over S of length at most n
SeqsUpTo(S, n) == UNION {[1..m -> S] : m \in 0..n}

\* whether the sequence s has no element twice
NoDup(s) == \A i, j \in DOMAIN s : s[i] = s[j] => i = j

-----------------------------------------------------------------------------
(* Placeholder extraction and the HTML merge                               *)

\* the length of the run of \w characters of s starting at position i
RECURSIVE WordRun(_, _)
WordRun(s, i) ==
    IF i <= Len(s) /\ IsWordChar(s[i]) THEN 1 + WordRun(s, i + 1) ELSE 0

\* s[i..j]
Slice(s, i, j) == [x \in 1..(j - i + 1) |-> s[i + x - 1]]

\* whether the literal lit stands in s at position i
LitAt(s, i, lit) ==
    /\ i + Len(lit) - 1 <= Len(s)
    /\ \A j \in 1..Len(lit) : s[i + j - 1] = lit[j]

\* an attempt that knows the braces only
TokenAt_BracesOnly(s, i) ==
    LET w1 == WordRun(s, i + 1)
    IN  IF LitAt(s, i, <<"{">>) /\ w1 > 0 /\ LitAt(s, i + 1 + w1, <<"}">>)
        THEN [len |-> w1 + 2, name |-> Slice(s, i + 1, i + w1)]
        ELSE [len |-> 0, name |-> <<>>]

\* One attempt of /\{(\w+)\}|\{\{(\w+)\}\}|\[(\w+)\]/ at position i: the
\* match's length and captured name, length 0 when none of the three
\* alternatives matches there.  \w+ is followed by a non-word character in
\* each alternative, so only the whole run can match.
TokenAt(s, i) ==
    LET w1 == WordRun(s, i + 1)
        w2 == WordRun(s, i + 2)
    IN  IF LitAt(s, i, <<"{">>) /\ w1 > 0 /\ LitAt(s, i + 1 + w1, <<"}">>)
        THEN [len |-> w1 + 2, name |-> Slice(s, i + 1, i + w1)]
        ELSE IF LitAt(s, i, <<"{", "{">>) /\ w2 > 0
                /\ LitAt(s, i + 2 + w2, <<"}", "}">>)
        THEN [len |-> w2 + 4, name |-> Slice(s, i + 2, i + 1 + w2)]
        ELSE IF LitAt(s, i, <<"[">>) /\ w1 > 0 /\ LitAt(s, i + 1 + w1, <<"]">>)
        THEN [len |-> w1 + 2, name |-> Slice(s, i + 1, i + w1)]
        ELSE [len |-> 0, name |-> <<>>]

\* the while loop over placeholderRegex.exec(text): found, a Set in insertion
\* order, after scanning text from position i
RECURSIVE ScanPlaceholders(_, _, _)
ScanPlaceholders(text, i, found) ==
    IF i > Len(text) THEN found
    ELSE LET m == TokenAt(text, i)
         IN  IF m.len = 0 THEN ScanPlaceholders(text, i + 1, found)
             ELSE ScanPlaceholders(text, i + m.len,
                     IF \E x \in DOMAIN found : found[x] = m.name
                     THEN found ELSE Append(found, m.name))

\* Array.from(found)
ExtractPlaceholders(text) == ScanPlaceholders(text, 1, <<>>)

\* whether the pattern pat matches s at position i under the flag i
\* (pat is a literal: a column name between its delimiters)
MatchAtCI(s, i, pat) ==
    /\ i + Len(pat) - 1 <= Len(s)
    /\ \A j \in 1..Len(pat) : LowerChar(s[i + j - 1]) = LowerChar(pat[j])

\* merged.replace(new RegExp(pat, 'gi'), value): every match, left to right,
\* the scan resuming after each match in the subject, never in the value
RECURSIVE ReplaceAllCI(_, _, _, _)
ReplaceAllCI(s, i, pat, value) ==
    IF i > Len(s) THEN <<>>
    ELSE IF MatchAtCI(s, i, pat)
         THEN value \o ReplaceAllCI(s, i + Len(pat), pat, value)
         ELSE <<s[i]>> \o ReplaceAllCI(s, i + 1, pat, value)

\* the body of the forEach of mergeCertificate for one key: the three replaces
MergeKey(merged, key, value) ==
    LET m1 == ReplaceAllCI(merged, 1, <<"{">> \o key \o <<"}">>, value)
        m2 == ReplaceAllCI(m1, 1, <<"{", "{">> \o key \o <<"}", "}">>, value)
    IN  ReplaceAllCI(m2, 1, <<"[">> \o key \o <<"]">>, value)

RECURSIVE MergeFrom(_, _, _)
MergeFrom(merged, record, i) ==
    IF i > Len(record) THEN merged
    ELSE MergeFrom(MergeKey(merged, record[i].k, CellText(record[i].v)),
                   record, i + 1)

mergeCertificate(template, record) == MergeFrom(template, record, 1)

-----------------------------------------------------------------------------
(* The component after construction (the useState initial values)          *)

IdleCall == [fn |-> "none", pc |-> "idle"]

AppInit ==
    /\ data = <<>>
    /\ docxTemplate = <<>>
    /\ docxHtml = <<>>
    /\ docxBinary = NULL
    /\ currentIndex = 0
    /\ uploadStatus = [docx |-> FALSE, excel |-> FALSE]
    /\ placeholders = <<>>
    /\ excelColumns = <<>>
    /\ savedTemplates = <<>>
    /\ selectedTemplateId = NullString
    /\ templateName = <<>>
    /\ showSaveDialog = FALSE
    /\ showRangeDialog = FALSE
    /\ rangeStart = 1
    /\ rangeEnd = 1
    /\ mounted = FALSE
    /\ now = 1
    /\ docxJob = NULL
    /\ excelJob = NULL
    /\ batches = <<>>
    /\ lastOp = [alert |-> NoAlert, fault |-> "none", saved |-> NULL,
     printed |-> NULL]
    /\ hasFileSystemSupport = FALSE
    /\ loadJob = NULL
    /\ deleteJob = NULL

-----------------------------------------------------------------------------
(* MergeSpec: mergeCertificate applied to every template of at most        *)
(* MaxTemplateLen characters and every record of MergeRecords              *)

MaxTemplateLen == 5

TemplateChars == {"{", "}", "[", "]", "a"}

MergeKeys == {<<"a">>, <<"A">>, <<"b">>}

MergeCells == {Str(<<>>), Str(<<"x">>), Num(0)}

\* records of one column, and records of two columns where the first
\* column's value names the second column
MergeRecords ==
    {<<>>}
    \cup {<<[k |-> k1, v |-> v1]>> : k1 \in MergeKeys, v1 \in MergeCells}
    \cup {<<[k |-> <<"a">>, v |-> v1], [k |-> <<"b">>, v |-> Str(<<"y">>)]>> :
             v1 \in {Str(<<"b">>), Str(<<"{", "b", "}">>)}}
    \cup {<<[k |-> <<"b">>, v |-> Str(<<"y">>)], [k |-> <<"a">>, v |-> Str(<<"b">>)]>>}

MergeInit ==
    /\ AppInit
    /\ localStorage = NULL
    /\ fileHandles = <<>>
    /\ \E t \in SeqsUpTo(TemplateChars, MaxTemplateLen), r \in MergeRecords :
          call = [fn |-> "mergeCertificate", pc |-> "args",
                  template |-> t, record |-> r, result |-> <<>>]

MergeCall ==
    /\ call.fn = "mergeCertificate" /\ call.pc = "args"
    /\ call' = [call EXCEPT !.pc = "done",
                            !.result = mergeCertificate(call.template, call.record)]
    /\ UNCHANGED appVars

MergeNext == MergeCall

MergeSpec == MergeInit /\ [][MergeNext]_vars

\* C3: a placeholder token of the template whose name matches no column of
\* the record is replaced by the empty string: no token {p}, {{p}} or [p] of
\* such a name p is left in the merged output.
UnmatchedNames(template, record) ==
    LET found == ExtractPlaceholders(template)
    IN  {found[i] : i \in {j \in DOMAIN found :
            \A c \in DOMAIN record :
                toLowerCase(record[c].k) # toLowerCase(found[j])}}

C3_AbsentFieldBlankInMerge ==
    (call.fn = "mergeCertificate" /\ call.pc = "done") =>
        LET left == ExtractPlaceholders(call.result)
        IN  \A p \in UnmatchedNames(call.template, call.record) :
                \A i \in DOMAIN left : left[i] # p

\* C4: text inserted as the value of a column is never scanned again: the
\* merge gives what it gives when every value is first replaced by an opaque
\* mark (a character no pattern can match) and the marks are filled in with
\* the values afterwards.
OpaqueMark(i) == <<"#1", "#2", "#3", "#4">>[i]

OpaqueRecord(record) ==
    [i \in DOMAIN record |-> [k |-> record[i].k, v |-> Str(<<OpaqueMark(i)>>)]]

RECURSIVE FillMarks(_, _, _)
FillMarks(s, i, record) ==
    IF i > Len(s) THEN <<>>
    ELSE (IF \E c \in DOMAIN record : s[i] = OpaqueMark(c)
          THEN CellText(record[CHOOSE c \in DOMAIN record : s[i] = OpaqueMark(c)].v)
          ELSE <<s[i]>>) \o FillMarks(s, i + 1, record)

C4_MergeIsSinglePass ==
    (call.fn = "mergeCertificate" /\ call.pc = "done") =>
        call.result =
            FillMarks(mergeCertificate(call.template, OpaqueRecord(call.record)),
                      1, call.record)

-----------------------------------------------------------------------------
(* generateDocx: the data handed to the document renderer                  *)

\* Object.keys(record).find(key => key.toLowerCase() === placeholder.toLowerCase()):
\* the index of the first such column from i on, 0 for undefined
RECURSIVE FindKey(_, _, _)
FindKey(record, placeholder, i) ==
    IF i > Len(record) THEN 0
    ELSE IF toLowerCase(record[i].k) = toLowerCase(placeholder) THEN i
    ELSE FindKey(record, placeholder, i + 1)

\* a find that compares the names as written
MatchingKey_CaseSensitive(record, placeholder) ==
    IF \E i \in DOMAIN record : record[i].k = placeholder
    THEN CHOOSE i \in DOMAIN record : record[i].k = placeholder
    ELSE 0

MatchingKey(record, placeholder) == FindKey(record, placeholder, 1)

\* an else branch that leaves the placeholder's own token in the document
NoMatchValue_KeepToken(placeholder) == <<"{">> \o placeholder \o <<"}">>

\* templateData[placeholder] = '' of the else branch
NoMatchValue(placeholder) == <<>>

\* the body of placeholders.forEach: the value stored under one placeholder
PlaceholderValue(record, placeholder) ==
    LET matchingKey == MatchingKey(record, placeholder)
    IN  IF matchingKey # 0
        THEN CellText(record[matchingKey].v)
        ELSE NoMatchValue(placeholder)

\* templateData after the forEach over the placeholders from i on
RECURSIVE FillTemplateData(_, _, _, _)
FillTemplateData(templateData, phs, record, i) ==
    IF i > Len(phs) THEN templateData
    ELSE FillTemplateData(
            [p \in DOMAIN templateData \cup {phs[i]} |->
                IF p = phs[i] THEN PlaceholderValue(record, phs[i])
                ELSE templateData[p]],
            phs, record, i + 1)

TemplateData(phs, record) == FillTemplateData(<<>>, phs, record, 1)

\* what doc.render writes for the tag p: templateData[p], and nullGetter()
\* for a tag templateData does not define
Rendered(templateData, p) ==
    IF p \in DOMAIN templateData THEN templateData[p] ELSE <<>>

(* GenSpec: the templateData of generateDocx for every list of at most     *)
(* MaxPlaceholders distinct placeholders and every record of at most       *)
(* MaxColumns columns                                                      *)

MaxPlaceholders == 2
MaxColumns == 2

GenNames == {<<"a">>, <<"A">>, <<"b">>, <<"a", "b">>}

GenCells == {Str(<<>>), Str(<<"x">>), Num(0), Num(17)}

GenRecords ==
    {r \in SeqsUpTo([k : GenNames, v : GenCells], MaxColumns) :
        \A i, j \in DOMAIN r : r[i].k = r[j].k => i = j}

GenInit ==
    /\ AppInit
    /\ localStorage = NULL
    /\ fileHandles = <<>>
    /\ \E phs \in {q \in SeqsUpTo(GenNames, MaxPlaceholders) : NoDup(q)},
          r \in GenRecords :
          call = [fn |-> "generateDocx", pc |-> "args",
                  placeholders |-> phs, record |-> r, result |-> <<>>]

GenCall ==
    /\ call.fn = "generateDocx" /\ call.pc = "args"
    /\ call' = [call EXCEPT !.pc = "done",
                            !.result = TemplateData(call.placeholders, call.record)]
    /\ UNCHANGED appVars

GenNext == GenCall

GenSpec == GenInit /\ [][GenNext]_vars

NoColumnMatches(record, p) ==
    \A c \in DOMAIN record : toLowerCase(record[c].k) # toLowerCase(p)

\* C2: every extracted placeholder receives a value in templateData, and a
\* placeholder that equals no column name of the record ignoring letter case
\* is rendered as the empty string.
C2_AbsentFieldEmptyInDocx ==
    (call.fn = "generateDocx" /\ call.pc = "done") =>
        \A i \in DOMAIN call.placeholders :
            LET p == call.placeholders[i]
            IN  /\ p \in DOMAIN call.result
                /\ NoColumnMatches(call.record, p) => call.result[p] = <<>>

C2_Witness ==
    /\ call.fn = "generateDocx" /\ call.pc = "done"
    /\ Len(call.placeholders) = 2 /\ Len(call.record) = 2
    /\ NoColumnMatches(call.record, call.placeholders[1])
    /\ ~NoColumnMatches(call.record, call.placeholders[2])
    /\ call.result[call.placeholders[2]] # <<>>

\* C6: a placeholder that equals some column name ignoring letter case is
\* rendered as the string form of the value of the first such column in the
\* record's column order (the empty string when that value is empty).
FirstColumnMatching(record, p) ==
    CHOOSE c \in DOMAIN record :
        /\ toLowerCase(record[c].k) = toLowerCase(p)
        /\ \A d \in 1..(c - 1) : toLowerCase(record[d].k) # toLowerCase(p)

C6_MatchedFieldValueInDocx ==
    (call.fn = "generateDocx" /\ call.pc = "done") =>
        \A i \in DOMAIN call.placeholders :
            LET p == call.placeholders[i]
            IN  ~NoColumnMatches(call.record, p) =>
                    Rendered(call.result, p) =
                        LET v == call.record[FirstColumnMatching(call.record, p)].v
                        IN  IF v.t = "num" THEN IntToStr(v.n) ELSE v.s

\* a placeholder written in another case than two columns that both match it,
\* the first of them holding a number
C6_Witness ==
    /\ call.fn = "generateDocx" /\ call.pc = "done"
    /\ \E i \in DOMAIN call.placeholders :
          LET p == call.placeholders[i]
          IN  /\ Len(call.record) = 2
              /\ call.record[1].k # call.record[2].k
              /\ toLowerCase(call.record[1].k) = toLowerCase(p)
              /\ toLowerCase(call.record[2].k) = toLowerCase(p)
              /\ call.record[1].v = Num(17)
              /\ call.record[2].v = Str(<<"x">>)
              /\ call.result[p] = <<"1", "7">>

-----------------------------------------------------------------------------
(* Spreadsheet dates                                                       *)

\* the year, month and day of the day numbered z, day 0 being 1 January 1970
\* (the proleptic Gregorian calendar of Date)
CivilFromDays(z) ==
    LET zz  == z + 719468
        era == zz \div 146097
        doe == zz - era * 146097
        yoe == (doe - doe \div 1460 + doe \div 36524 - doe \div 146096) \div 365
        doy == doe - (365 * yoe + yoe \div 4 - yoe \div 100)
        mp  == (5 * doy + 2) \div 153
        d   == doy - (153 * mp + 2) \div 5 + 1
        m   == IF mp < 10 THEN mp + 3 ELSE mp - 9
        y   == yoe + era * 400 + (IF m <= 2 THEN 1 ELSE 0)
    IN  [year |-> y, month |-> m, day |-> d]

MonthNames ==
    << <<"J", "a", "n", "u", "a", "r", "y">>,
       <<"F", "e", "b", "r", "u", "a", "r", "y">>,
       <<"M", "a", "r", "c", "h">>,
       <<"A", "p", "r", "i", "l">>,
       <<"M", "a", "y">>,
       <<"J", "u", "n", "e">>,
       <<"J", "u", "l", "y">>,
       <<"A", "u", "g", "u", "s", "t">>,
       <<"S", "e", "p", "t", "e", "m", "b", "e", "r">>,
       <<"O", "c", "t", "o", "b", "e", "r">>,
       <<"N", "o", "v", "e", "m", "b", "e", "r">>,
       <<"D", "e", "c", "e", "m", "b", "e", "r">> >>

\* toLocaleDateString('en-US', {year: 'numeric', month: 'long', day: 'numeric'})
FormatLongDate(ymd) ==
    MonthNames[ymd.month] \o <<" ">> \o IntToStr(ymd.day) \o <<",", " ">>
        \o IntToStr(ymd.year)

\* the serial number of 1 January 1970
EpochSerial == 25569

\* excelDateToJSDate for a whole-number serial, in a browser whose local time
\* is tz minutes ahead of UTC.  date_info is midnight UTC of day utc_days;
\* getFullYear, getMonth and getDate read it in local time; the fractional
\* day of a whole serial gives 0 hours, minutes and seconds.  The instant is
\* counted in minutes (utc_value / 60), a whole number for every serial.
excelDateToJSDate(serial, tz) ==
    LET utc_days    == serial - EpochSerial
        utc_minutes == utc_days * 1440
        local_day   == (utc_minutes + tz) \div 1440
    IN  FormatLongDate(CivilFromDays(local_day))

\* the upper limit of the serials taken for dates
DateSerialLimit == 73050

\* a test that takes the serial 1 for a date as well
LooksLikeDate_FromOne(value) ==
    value.t = "num" /\ value.n >= 1 /\ value.n < DateSerialLimit

\* typeof value === 'number' && value > 1 && value < 73050
LooksLikeDate(value) ==
    value.t = "num" /\ value.n > 1 /\ value.n < DateSerialLimit

\* the body of Object.keys(row).forEach: processed[key]
ProcessCell(value, tz) ==
    IF LooksLikeDate(value) THEN Str(excelDateToJSDate(value.n, tz)) ELSE value

\* jsonData.map(row => processed)
processExcelData(jsonData, tz) ==
    [r \in DOMAIN jsonData |->
        [c \in DOMAIN jsonData[r] |->
            [k |-> jsonData[r][c].k, v |-> ProcessCell(jsonData[r][c].v, tz)]]]

(* ExcelSpec: processExcelData applied to every sheet of at most MaxRows   *)
(* rows of one or two cells drawn from ExcelCells                          *)

MaxRows == 2

ExcelCells == {Str(<<"x">>), Str(<<"7">>), Num(0 - 3), Num(1), Num(2), Num(60),
               Num(45000), Num(73049), Num(73050)}

ExcelRows ==
    {<<[k |-> <<"N", "a", "m", "e">>, v |-> v1]>> : v1 \in ExcelCells}
    \cup {<<[k |-> <<"D", "a", "t", "e">>, v |-> v1],
            [k |-> <<"N", "a", "m", "e">>, v |-> Str(<<"x">>)]>> :
             v1 \in {Num(2), Num(45000)}}

\* the local time zones tried, in minutes ahead of UTC
TimeZones == {0 - 300, 0, 540}

ExcelInit ==
    /\ AppInit
    /\ localStorage = NULL
    /\ fileHandles = <<>>
    /\ \E sheet \in SeqsUpTo(ExcelRows, MaxRows), tz \in TimeZones :
          call = [fn |-> "processExcelData", pc |-> "args",
                  jsonData |-> sheet, tz |-> tz, result |-> <<>>]

ExcelCall ==
    /\ call.fn = "processExcelData" /\ call.pc = "args"
    /\ call' = [call EXCEPT !.pc = "done",
                            !.result = processExcelData(call.jsonData, call.tz)]
    /\ UNCHANGED appVars

ExcelNext == ExcelCall

ExcelSpec == ExcelInit /\ [][ExcelNext]_vars

IsDigit(c) == \E i \in DOMAIN DigitChars : DigitChars[i] = c

\* a month's name, a space, a day of the month, a comma, a space and a year
\* of four digits
IsDateString(s) ==
    \E m \in 1..12 :
        /\ LitAt(s, 1, MonthNames[m])
        /\ \E d \in 1..31 :
            LET head == MonthNames[m] \o <<" ">> \o IntToStr(d) \o <<",", " ">>
            IN  /\ LitAt(s, 1, head)
                /\ Len(s) = Len(head) + 4
                /\ \A i \in (Len(head) + 1)..Len(s) : IsDigit(s[i])

\* C7: processExcelData returns as many rows, in the same order, with the
\* same column names; a cell is replaced by a date string exactly when it is
\* a number v with 1 < v < 73050, and every other cell is returned unchanged.
C7_ProcessExcelDataShape ==
    (call.fn = "processExcelData" /\ call.pc = "done") =>
        /\ Len(call.result) = Len(call.jsonData)
        /\ \A r \in DOMAIN call.jsonData :
            /\ Keys(call.result[r]) = Keys(call.jsonData[r])
            /\ \A c \in DOMAIN call.jsonData[r] :
                LET old == call.jsonData[r][c].v
                    new == call.result[r][c].v
                IN  IF old.t = "num" /\ 1 < old.n /\ old.n < 73050
                    THEN new.t = "str" /\ IsDateString(new.s)
                    ELSE new = old

C7_Witness ==
    /\ call.fn = "processExcelData" /\ call.pc = "done"
    /\ Len(call.jsonData) = 2
    /\ call.jsonData[1][1].v = Num(1)
    /\ call.result[1][1].v = Num(1)
    /\ call.jsonData[2][1].v = Num(45000)
    /\ call.result[2][1].v = Str(<<"M", "a", "r", "c", "h", " ", "1", "5", ",", " ",
                                   "2", "0", "2", "3">>)

-----------------------------------------------------------------------------
(* Template persistence: base64 and the stored list                        *)

\* an ArrayBuffer holding the given bytes
Buf(bytes) == [bytes |-> bytes]

Base64Chars ==
    << "A", "B", "C", "D", "E", "F", "G", "H", "I", "J", "K", "L", "M", "N", "O", "P",
       "Q", "R", "S", "T", "U", "V", "W", "X", "Y", "Z", "a", "b", "c", "d", "e", "f",
       "g", "h", "i", "j", "k", "l", "m", "n", "o", "p", "q", "r", "s", "t", "u", "v",
       "w", "x", "y", "z", "0", "1", "2", "3", "4", "5", "6", "7", "8", "9", "+", "/" >>

Base64Index(c) == (CHOOSE i \in DOMAIN Base64Chars : Base64Chars[i] = c) - 1

\* btoa: the base64 text of a binary string, given as its character codes
RECURSIVE btoa(_)
btoa(codes) ==
    IF Len(codes) = 0 THEN <<>>
    ELSE IF Len(codes) = 1 THEN
        << Base64Chars[(codes[1] \div 4) + 1],
           Base64Chars[((codes[1] % 4) * 16) + 1], "=", "=" >>
    ELSE IF Len(codes) = 2 THEN
        << Base64Chars[(codes[1] \div 4) + 1],
           Base64Chars[((codes[1] % 4) * 16 + codes[2] \div 16) + 1],
           Base64Chars[((codes[2] % 16) * 4) + 1], "=" >>
    ELSE
        << Base64Chars[(codes[1] \div 4) + 1],
           Base64Chars[((codes[1] % 4) * 16 + codes[2] \div 16) + 1],
           Base64Chars[((codes[2] % 16) * 4 + codes[3] \div 64) + 1],
           Base64Chars[(codes[3] % 64) + 1] >>
        \o btoa(SubSeq(codes, 4, Len(codes)))

\* atob: the character codes of the binary string a base64 text stands for
RECURSIVE atob(_)
atob(text) ==
    IF Len(text) < 4 THEN <<>>
    ELSE LET a == Base64Index(text[1])
             b == Base64Index(text[2])
             group ==
                IF text[3] = "=" THEN << a * 4 + b \div 16 >>
                ELSE IF text[4] = "=" THEN
                    << a * 4 + b \div 16,
                       (b % 16) * 16 + Base64Index(text[3]) \div 4 >>
                ELSE
                    << a * 4 + b \div 16,
                       (b % 16) * 16 + Base64Index(text[3]) \div 4,
                       (Base64Index(text[3]) % 4) * 64 + Base64Index(text[4]) >>
         IN  group \o atob(SubSeq(text, 5, Len(text)))

\* the loop of arrayBufferToBase64 stopping one byte short
arrayBufferToBase64_SkipsLastByte(buffer) ==
    btoa([i \in 1..(Len(buffer.bytes) - 1) |-> buffer.bytes[i]])

\* binary += String.fromCharCode(bytes[i]) for each byte, then btoa(binary)
arrayBufferToBase64(buffer) ==
    btoa([i \in 1..Len(buffer.bytes) |-> buffer.bytes[i]])

\* bytes[i] = binaryString.charCodeAt(i) into a Uint8Array, then bytes.buffer
base64ToArrayBuffer(base64) ==
    LET binaryString == atob(base64)
    IN  Buf([i \in 1..Len(binaryString) |-> binaryString[i] % 256])

\* a list stored without its last template
TemplatesForStorage_WithoutLast(updated) ==
    [json |-> [i \in 1..(Len(updated) - 1) |->
                  [updated[i] EXCEPT !.binary = <<>>]]]

\* JSON.stringify(updated.map(t => ({...t, binary: arrayBufferToBase64(t.binary)}))).
\* A JSON text is represented by the value it denotes: the stored templates
\* are made of strings and arrays of strings, which JSON.parse returns as
\* JSON.stringify was given them.
TemplatesForStorage(updated) ==
    [json |-> [i \in DOMAIN updated |->
                  [updated[i] EXCEPT !.binary = arrayBufferToBase64(@)]]]

\* JSON.parse(saved).map(t => ({...t, binary: base64ToArrayBuffer(t.binary)}))
TemplatesWithBinary(saved) ==
    [i \in DOMAIN saved.json |->
        [saved.json[i] EXCEPT !.binary = base64ToArrayBuffer(@)]]

\* new Date().toLocaleDateString() at the instant t: the date is written as
\* the number of its day
LocaleDateString(t) == IntToStr(t \div 86400000)

\* the SavedTemplate saveTemplate builds at the instant t
NewTemplate(t, name, html, binary, phs) ==
    [id |-> IntToStr(t), name |-> name, html |-> html, binary |-> binary,
     placeholders |-> phs, uploadDate |-> LocaleDateString(t)]

(* StoreSpec: a template of every binary of at most MaxBytes bytes drawn   *)
(* from ByteSamples is saved, the page is loaded again and the mount       *)
(* effect restores the list                                                *)

MaxBytes == 3

ByteSamples == {0, 1, 80, 128, 255}

StoreHtmls == {<<>>, <<"{", "a", "}">>}

StoreInit ==
    /\ AppInit
    /\ localStorage = NULL
    /\ fileHandles = <<>>
    /\ \E b \in SeqsUpTo(ByteSamples, MaxBytes), h \in StoreHtmls :
          call = [fn |-> "saveTemplate", pc |-> "args",
                  template |-> NewTemplate(1700000000, <<"t">>, h, Buf(b),
                                           ExtractPlaceholders(h)),
                  stored |-> NULL, result |-> <<>>]

\* saveTemplate, lines 181 to 189: the list with the new template is stored
StoreSave ==
    /\ call.fn = "saveTemplate" /\ call.pc = "args"
    /\ call' = [call EXCEPT !.pc = "stored",
                            !.stored = TemplatesForStorage(<<call.template>>)]
    /\ UNCHANGED appVars

\* the mount effect of the next page load reads the list back
StoreMount ==
    /\ call.fn = "saveTemplate" /\ call.pc = "stored"
    /\ call' = [call EXCEPT !.pc = "restored",
                            !.result = TemplatesWithBinary(call.stored)]
    /\ UNCHANGED appVars

StoreNext == StoreSave \/ StoreMount

StoreSpec == StoreInit /\ [][StoreNext]_vars

\* C10: base64ToArrayBuffer(arrayBufferToBase64(b)) has the bytes of b, so
\* the template the mount effect restores has the id, name, html,
\* placeholders and binary of the template saveTemplate stored.
C10_TemplateRoundTrip ==
    /\ (call.fn = "saveTemplate" /\ call.pc # "args") =>
          base64ToArrayBuffer(call.stored.json[1].binary).bytes
              = call.template.binary.bytes
    /\ (call.fn = "saveTemplate" /\ call.pc = "restored") =>
          /\ Len(call.result) = 1
          /\ call.result[1].id = call.template.id
          /\ call.result[1].name = call.template.name
          /\ call.result[1].html = call.template.html
          /\ call.result[1].placeholders = call.template.placeholders
          /\ call.result[1].binary = call.template.binary

\* a binary of three bytes (one whole group) and one of two (a padded group)
C10_Witness ==
    /\ call.fn = "saveTemplate" /\ call.pc = "restored"
    /\ call.template.binary.bytes = <<255, 128>>
    /\ call.stored.json[1].binary = <<"/", "4", "A", "=">>
    /\ call.result[1].binary.bytes = <<255, 128>>
    /\ call.result[1].placeholders = <<<<"a">>>>

-----------------------------------------------------------------------------
(* The files the user can choose, and what the libraries make of them      *)

\* a DOCX file on disk: its name and its bytes
GoodDocx     == [name |-> <<"a", ".", "d", "o", "c", "x">>, bytes |-> <<80, 75, 1>>]
OtherDocx    == [name |-> <<"b", ".", "d", "o", "c", "x">>, bytes |-> <<80, 75, 2>>]
UnclosedDocx == [name |-> <<"c", ".", "d", "o", "c", "x">>, bytes |-> <<80, 75, 3>>]
NotZipDocx   == [name |-> <<"d", ".", "d", "o", "c", "x">>, bytes |-> <<0>>]

DocxFiles == {GoodDocx, OtherDocx, UnclosedDocx, NotZipDocx}

\* whether the bytes are a zip archive (they start with "PK")
IsZip(buffer) ==
    Len(buffer.bytes) >= 2 /\ buffer.bytes[1] = 80 /\ buffer.bytes[2] = 75

\* the text of the document inside the archive
DocumentText(buffer) ==
    IF buffer.bytes = GoodDocx.bytes THEN <<"{", "N", "a", "m", "e", "}", " ", "[", "d", "a", "t", "e", "]">>
    ELSE IF buffer.bytes = OtherDocx.bytes THEN <<"{", "n", "a", "m", "e", "}", " ", "{", "D", "a", "t", "e", "}">>
    ELSE <<"{", "N", "a", "m", "e">>

\* mammoth.convertToHtml({arrayBuffer}): rejects what is no archive
MammothConvert(buffer) ==
    IF IsZip(buffer) THEN [ok |-> TRUE, value |-> DocumentText(buffer)]
    ELSE [ok |-> FALSE, value |-> <<>>]

\* whether every "{" of the text is closed by a "}" before the next "{"
RECURSIVE TagsClosed(_, _, _)
TagsClosed(text, i, open) ==
    IF i > Len(text) THEN ~open
    ELSE IF text[i] = "{" THEN ~open /\ TagsClosed(text, i + 1, TRUE)
    ELSE IF text[i] = "}" THEN open /\ TagsClosed(text, i + 1, FALSE)
    ELSE TagsClosed(text, i + 1, open)

\* new PizZip(buffer) and new Docxtemplater(zip, options): PizZip throws on
\* what is no archive, Docxtemplater on a template whose tags do not parse
DocxtemplaterLoads(buffer) ==
    IsZip(buffer) /\ TagsClosed(DocumentText(buffer), 1, FALSE)

\* file.name.replace('.docx', '')
RECURSIVE RemoveFirst(_, _, _)
RemoveFirst(s, i, lit) ==
    IF i > Len(s) THEN <<>>
    ELSE IF LitAt(s, i, lit) THEN SubSeq(s, i + Len(lit), Len(s))
    ELSE <<s[i]>> \o RemoveFirst(s, i + 1, lit)

\* the rows of the spreadsheets: odd rows name a person, even rows have an
\* empty name and a number that is no date
SheetRow(i) ==
    IF i % 2 = 1
    THEN << [k |-> <<"N", "a", "m", "e">>, v |-> Str(<<"P">> \o IntToStr(i))],
            [k |-> <<"D", "a", "t", "e">>, v |-> Num(45000 + i)] >>
    ELSE << [k |-> <<"n", "a", "m", "e">>, v |-> Str(<<>>)],
            [k |-> <<"D", "a", "t", "e">>, v |-> Num(1)] >>

\* a spreadsheet file: the rows of its first sheet, or a file XLSX.read rejects
Sheet(n) == [ok |-> TRUE, rows |-> [i \in 1..n |-> SheetRow(i)]]
BrokenSheet == [ok |-> FALSE, rows |-> <<>>]

\* the local time zone of the browser, in minutes ahead of UTC
BrowserTimeZone == 0 - 300

\* String.prototype.trim
RECURSIVE TrimLeft(_)
TrimLeft(s) == IF Len(s) > 0 /\ s[1] = " " THEN TrimLeft(Tail(s)) ELSE s
RECURSIVE TrimRight(_)
TrimRight(s) ==
    IF Len(s) > 0 /\ s[Len(s)] = " " THEN TrimRight(SubSeq(s, 1, Len(s) - 1)) ELSE s
Trim(s) == TrimRight(TrimLeft(s))

\* parseInt(text): NaN, or the number n
RECURSIVE DigitsValue(_, _, _)
DigitsValue(text, i, acc) ==
    IF i <= Len(text) /\ IsDigit(text[i])
    THEN DigitsValue(text, i + 1,
            acc * 10 + (CHOOSE d \in 0..9 : DigitChars[d + 1] = text[i]))
    ELSE acc

parseInt(text) ==
    LET t == TrimLeft(text)
        neg == Len(t) > 0 /\ t[1] = "-"
        digits == IF neg \/ (Len(t) > 0 /\ t[1] = "+") THEN Tail(t) ELSE t
    IN  IF Len(digits) = 0 \/ ~IsDigit(digits[1]) THEN [nan |-> TRUE, n |-> 0]
        ELSE IF neg THEN [nan |-> FALSE, n |-> 0 - DigitsValue(digits, 1, 0)]
        ELSE [nan |-> FALSE, n |-> DigitsValue(digits, 1, 0)]

\* parseInt(text) || fallback: NaN and 0 are falsy
ParseIntOr(text, fallback) ==
    IF parseInt(text).nan \/ parseInt(text).n = 0 THEN fallback
    ELSE parseInt(text).n

-----------------------------------------------------------------------------
(* Document generation                                                     *)

\* record[key]: the cell of the column named key, NULL for undefined
Field(record, key) ==
    IF \E c \in DOMAIN record : record[c].k = key
    THEN record[CHOOSE c \in DOMAIN record : record[c].k = key].v
    ELSE NULL

\* whether a || b takes a
Truthy(v) ==
    /\ v # NULL
    /\ IF v.t = "num" THEN v.n # 0 ELSE v.s # <<>>

\* (record.name || record.Name || `certificate_${idx + 1}`).toString()
DownloadName(record, idx) ==
    IF Truthy(Field(record, <<"n", "a", "m", "e">>)) THEN CellText(Field(record, <<"n", "a", "m", "e">>))
    ELSE IF Truthy(Field(record, <<"N", "a", "m", "e">>)) THEN CellText(Field(record, <<"N", "a", "m", "e">>))
    ELSE <<"c", "e", "r", "t", "i", "f", "i", "c", "a", "t", "e", "_">> \o IntToStr(idx + 1)

\* generateDocx(record) in a render whose docxBinary and placeholders are
\* binary and phs: it throws, or returns the document rendered from the
\* template binary with templateData
generateDocx(binary, phs, record) ==
    IF binary = NULL THEN [ok |-> FALSE]
    ELSE IF ~DocxtemplaterLoads(binary) THEN [ok |-> FALSE]
    ELSE [ok |-> TRUE, template |-> binary, data |-> TemplateData(phs, record)]

-----------------------------------------------------------------------------
(* The component: handlers, callbacks and timers                           *)

MaxRecords == 2
MaxBatches == 1
MaxSaves == 1

ExcelFiles == {Sheet(n) : n \in 0..MaxRecords} \cup {BrokenSheet}

\* what localStorage holds when the page is opened: nothing, or the list an
\* earlier session of this revision stored
EarlierStorage ==
    TemplatesForStorage(<<NewTemplate(0, <<"o", "l", "d">>,
                                      DocumentText(Buf(OtherDocx.bytes)),
                                      Buf(OtherDocx.bytes),
                                      ExtractPlaceholders(
                                          DocumentText(Buf(OtherDocx.bytes))))>>)

InitialStorages == {NULL, EarlierStorage}

\* what the user can type as the template's name and in the range fields
TypedNames == {<<" ">>, <<"m", "y">>}
TypedNumbers == {<<>>} \cup {IntToStr(n) : n \in (0 - 1)..(MaxRecords + 1)}

\* what the handler or callback that ran last did besides setting state: the
\* alert it raised, whether a failure met in it was caught in it or left it
\* uncaught, the file it gave saveAs, and the document it wrote to the print
\* window
Done == [alert |-> NoAlert, fault |-> "none", saved |-> NULL,
     printed |-> NULL]
Saved(file) == [alert |-> NoAlert, fault |-> "none", saved |-> file,
     printed |-> NULL]
Alerted(message) == [alert |-> message, fault |-> "none", saved |-> NULL,
     printed |-> NULL]
CaughtAlerted(message) == [alert |-> message, fault |-> "caught", saved |-> NULL,
     printed |-> NULL]
CaughtLogged == [alert |-> NoAlert, fault |-> "caught", saved |-> NULL,
     printed |-> NULL]
Escaped == [alert |-> NoAlert, fault |-> "uncaught", saved |-> NULL,
     printed |-> NULL]
Printed(document) == [alert |-> NoAlert, fault |-> "none", saved |-> NULL,
     printed |-> document]

isReady == uploadStatus.docx /\ uploadStatus.excel

\* the overlays (fixed inset-0) of the dialogs cover the page beneath them,
\* and the range dialog, later in the document, covers the save dialog
PageClickable == mounted /\ ~showSaveDialog /\ ~showRangeDialog
SaveDialogClickable == mounted /\ showSaveDialog /\ ~showRangeDialog
RangeDialogClickable == mounted /\ showRangeDialog

Init ==
    /\ AppInit
    /\ localStorage \in InitialStorages
    /\ fileHandles = <<>>
    /\ call = IdleCall

\* the mount effect (useEffect with no dependencies)
MountEffect ==
    /\ ~mounted
    /\ mounted' = TRUE
    /\ savedTemplates' = IF localStorage # NULL
                         THEN TemplatesWithBinary(localStorage)
                         ELSE savedTemplates
    /\ lastOp' = Done
    /\ UNCHANGED <<data, docxTemplate, docxHtml, docxBinary, currentIndex,
                   uploadStatus, placeholders, excelColumns, selectedTemplateId,
                   templateName, showSaveDialog, showRangeDialog, rangeStart,
                   rangeEnd, localStorage, now, docxJob, excelJob, batches, call,
                   hasFileSystemSupport, fileHandles, loadJob, deleteJob>>

\* handleDocxUpload up to its first await, file.arrayBuffer()
HandleDocxUpload(file) ==
    /\ PageClickable
    /\ docxJob = NULL
    /\ docxJob' = [file |-> file, pc |-> "arrayBuffer"]
    /\ lastOp' = Done
    /\ UNCHANGED <<data, docxTemplate, docxHtml, docxBinary, currentIndex,
                   uploadStatus, placeholders, excelColumns, savedTemplates,
                   selectedTemplateId, templateName, showSaveDialog,
                   showRangeDialog, rangeStart, rangeEnd, localStorage, mounted,
                   now, excelJob, batches, call,
                   hasFileSystemSupport, fileHandles, loadJob, deleteJob>>

\* handleDocxUpload from the bytes to its second await, mammoth.convertToHtml
DocxBytesRead ==
    /\ docxJob # NULL /\ docxJob.pc = "arrayBuffer"
    /\ docxBinary' = Buf(docxJob.file.bytes)
    /\ docxJob' = [docxJob EXCEPT !.pc = "convertToHtml"]
    /\ lastOp' = Done
    /\ UNCHANGED <<data, docxTemplate, docxHtml, currentIndex, uploadStatus,
                   placeholders, excelColumns, savedTemplates, selectedTemplateId,
                   templateName, showSaveDialog, showRangeDialog, rangeStart,
                   rangeEnd, localStorage, mounted, now, excelJob, batches, call,
                   hasFileSystemSupport, fileHandles, loadJob, deleteJob>>

\* handleDocxUpload after mammoth.convertToHtml, to its end or to its catch
DocxConverted ==
    /\ docxJob # NULL /\ docxJob.pc = "convertToHtml"
    /\ docxJob' = NULL
    /\ LET arrayBuffer == Buf(docxJob.file.bytes)
           result == MammothConvert(arrayBuffer)
       IN  IF ~result.ok
           THEN /\ lastOp' = CaughtAlerted("Error reading DOCX file. Please try again.")
                /\ UNCHANGED <<docxHtml, docxTemplate, placeholders, uploadStatus,
                               selectedTemplateId, templateName, showSaveDialog>>
           ELSE /\ docxHtml' = result.value
                /\ docxTemplate' = result.value
                /\ IF ~DocxtemplaterLoads(arrayBuffer)
                   THEN /\ lastOp' = CaughtAlerted("Error reading DOCX file. Please try again.")
                        /\ UNCHANGED <<placeholders, uploadStatus,
                                       selectedTemplateId, templateName,
                                       showSaveDialog>>
                   ELSE /\ placeholders' =
                              ExtractPlaceholders(DocumentText(arrayBuffer))
                        /\ uploadStatus' = [uploadStatus EXCEPT !.docx = TRUE]
                        /\ selectedTemplateId' = NullString
                        /\ templateName' =
                              RemoveFirst(docxJob.file.name, 1,
                                          <<".", "d", "o", "c", "x">>)
                        /\ showSaveDialog' = TRUE
                        /\ lastOp' = Done
    /\ UNCHANGED <<data, docxBinary, currentIndex, excelColumns, savedTemplates,
                   showRangeDialog, rangeStart, rangeEnd, localStorage, mounted,
                   now, excelJob, batches, call,
                   hasFileSystemSupport, fileHandles, loadJob, deleteJob>>

\* the name field of the save dialog
SetTemplateName(text) ==
    /\ SaveDialogClickable
    /\ templateName' = text
    /\ lastOp' = Done
    /\ UNCHANGED <<data, docxTemplate, docxHtml, docxBinary, currentIndex,
                   uploadStatus, placeholders, excelColumns, savedTemplates,
                   selectedTemplateId, showSaveDialog, showRangeDialog, rangeStart,
                   rangeEnd, localStorage, mounted, now, docxJob, excelJob,
                   batches, call,
                   hasFileSystemSupport, fileHandles, loadJob, deleteJob>>

\* the Cancel button of the save dialog
CancelSave ==
    /\ SaveDialogClickable
    /\ showSaveDialog' = FALSE
    /\ lastOp' = Done
    /\ UNCHANGED <<data, docxTemplate, docxHtml, docxBinary, currentIndex,
                   uploadStatus, placeholders, excelColumns, savedTemplates,
                   selectedTemplateId, templateName, showRangeDialog, rangeStart,
                   rangeEnd, localStorage, mounted, now, docxJob, excelJob,
                   batches, call,
                   hasFileSystemSupport, fileHandles, loadJob, deleteJob>>

\* saveTemplate; quotaLeft tells whether localStorage.setItem has room
SaveTemplate(quotaLeft) ==
    /\ SaveDialogClickable
    /\ (Trim(templateName) # <<>> /\ docxBinary # NULL) => now <= MaxSaves
    /\ IF Trim(templateName) = <<>>
       THEN /\ lastOp' = Alerted("Please enter a template name")
            /\ UNCHANGED <<savedTemplates, localStorage, showSaveDialog,
                           selectedTemplateId, now>>
       ELSE IF docxBinary = NULL
       THEN /\ lastOp' = Alerted("No template to save")
            /\ UNCHANGED <<savedTemplates, localStorage, showSaveDialog,
                           selectedTemplateId, now>>
       ELSE LET newTemplate == NewTemplate(now, templateName, docxHtml,
                                           docxBinary, placeholders)
                updated == Append(savedTemplates, newTemplate)
            IN  /\ savedTemplates' = updated
                /\ now' = now + 1
                /\ IF quotaLeft
                   THEN /\ localStorage' = TemplatesForStorage(updated)
                        /\ showSaveDialog' = FALSE
                        /\ selectedTemplateId' = newTemplate.id
                        /\ lastOp' = Done
                   ELSE /\ lastOp' = Escaped
                        /\ UNCHANGED <<localStorage, showSaveDialog,
                                       selectedTemplateId>>
    /\ UNCHANGED <<data, docxTemplate, docxHtml, docxBinary, currentIndex,
                   uploadStatus, placeholders, excelColumns, templateName,
                   showRangeDialog, rangeStart, rangeEnd, mounted, docxJob,
                   excelJob, batches, call,
                   hasFileSystemSupport, fileHandles, loadJob, deleteJob>>

\* loadTemplate(template): a click on an entry of the saved templates
LoadTemplate(template) ==
    /\ PageClickable
    /\ docxHtml' = template.html
    /\ docxTemplate' = template.html
    /\ docxBinary' = template.binary
    /\ placeholders' = template.placeholders
    /\ uploadStatus' = [uploadStatus EXCEPT !.docx = TRUE]
    /\ selectedTemplateId' = template.id
    /\ lastOp' = Done
    /\ UNCHANGED <<data, currentIndex, excelColumns, savedTemplates, templateName,
                   showSaveDialog, showRangeDialog, rangeStart, rangeEnd,
                   localStorage, mounted, now, docxJob, excelJob, batches, call,
                   hasFileSystemSupport, fileHandles, loadJob, deleteJob>>

\* savedTemplates.filter(t => t.id !== id)
FilterOut(templates, id) ==
    LET keep == {i \in DOMAIN templates : templates[i].id # id}
        nth(n) == CHOOSE i \in keep : Cardinality({j \in keep : j < i}) = n - 1
    IN  [n \in 1..Cardinality(keep) |-> templates[nth(n)]]

\* a deleteTemplate that clears the active template whichever the id
DeleteTemplate_ClearsAlways(id, confirmed) ==
    /\ PageClickable
    /\ IF ~confirmed
       THEN /\ lastOp' = Done
            /\ UNCHANGED <<savedTemplates, localStorage, docxHtml, docxTemplate,
                           docxBinary, placeholders, uploadStatus,
                           selectedTemplateId>>
       ELSE LET updated == FilterOut(savedTemplates, id)
            IN  /\ savedTemplates' = updated
                /\ localStorage' = TemplatesForStorage(updated)
                /\ lastOp' = Done
                /\ docxHtml' = <<>>
                /\ docxTemplate' = <<>>
                /\ docxBinary' = NULL
                /\ placeholders' = <<>>
                /\ uploadStatus' = [uploadStatus EXCEPT !.docx = FALSE]
                /\ selectedTemplateId' = NullString
    /\ UNCHANGED <<data, currentIndex, excelColumns, templateName, showSaveDialog,
                   showRangeDialog, rangeStart, rangeEnd, mounted, now, docxJob,
                   excelJob, batches, hasFileSystemSupport, fileHandles,
                   loadJob, deleteJob, call>>

\* deleteTemplate(id), the user answering the confirm() with confirmed
DeleteTemplate(id, confirmed) ==
    /\ PageClickable
    /\ IF ~confirmed
       THEN /\ lastOp' = Done
            /\ UNCHANGED <<savedTemplates, localStorage, docxHtml, docxTemplate,
                           docxBinary, placeholders, uploadStatus,
                           selectedTemplateId>>
       ELSE LET updated == FilterOut(savedTemplates, id)
            IN  /\ savedTemplates' = updated
                /\ localStorage' = TemplatesForStorage(updated)
                /\ lastOp' = Done
                /\ IF selectedTemplateId = id
                   THEN /\ docxHtml' = <<>>
                        /\ docxTemplate' = <<>>
                        /\ docxBinary' = NULL
                        /\ placeholders' = <<>>
                        /\ uploadStatus' = [uploadStatus EXCEPT !.docx = FALSE]
                        /\ selectedTemplateId' = NullString
                   ELSE UNCHANGED <<docxHtml, docxTemplate, docxBinary,
                                    placeholders, uploadStatus, selectedTemplateId>>
    /\ UNCHANGED <<data, currentIndex, excelColumns, templateName, showSaveDialog,
                   showRangeDialog, rangeStart, rangeEnd, mounted, now, docxJob,
                   excelJob, batches, call,
                   hasFileSystemSupport, fileHandles, loadJob, deleteJob>>

\* handleExcelUpload: reader.readAsBinaryString(file)
HandleExcelUpload(file) ==
    /\ PageClickable
    /\ excelJob = NULL
    /\ excelJob' = file
    /\ lastOp' = Done
    /\ UNCHANGED <<data, docxTemplate, docxHtml, docxBinary, currentIndex,
                   uploadStatus, placeholders, excelColumns, savedTemplates,
                   selectedTemplateId, templateName, showSaveDialog,
                   showRangeDialog, rangeStart, rangeEnd, localStorage, mounted,
                   now, docxJob, batches, call,
                   hasFileSystemSupport, fileHandles, loadJob, deleteJob>>

\* reader.onload
ExcelLoaded ==
    /\ excelJob # NULL
    /\ excelJob' = NULL
    /\ IF ~excelJob.ok
       THEN /\ lastOp' = CaughtAlerted("Error reading Excel file. Please try again.")
            /\ UNCHANGED <<data, excelColumns, currentIndex, rangeEnd, uploadStatus>>
       ELSE /\ lastOp' = Done
            /\ IF Len(excelJob.rows) > 0
               THEN LET processedData ==
                            processExcelData(excelJob.rows, BrowserTimeZone)
                    IN  /\ data' = processedData
                        /\ excelColumns' = Keys(excelJob.rows[1])
                        /\ currentIndex' = 0
                        /\ rangeEnd' = Len(processedData)
                        /\ uploadStatus' = [uploadStatus EXCEPT !.excel = TRUE]
               ELSE UNCHANGED <<data, excelColumns, currentIndex, rangeEnd,
                                uploadStatus>>
    /\ UNCHANGED <<docxTemplate, docxHtml, docxBinary, placeholders,
                   savedTemplates, selectedTemplateId, templateName,
                   showSaveDialog, showRangeDialog, rangeStart, localStorage,
                   mounted, now, docxJob, batches, call,
                   hasFileSystemSupport, fileHandles, loadJob, deleteJob>>

\* the Previous button
PreviousRecord ==
    /\ PageClickable /\ isReady
    /\ currentIndex # 0
    /\ currentIndex' = IF 0 > currentIndex - 1 THEN 0 ELSE currentIndex - 1
    /\ lastOp' = Done
    /\ UNCHANGED <<data, docxTemplate, docxHtml, docxBinary, uploadStatus,
                   placeholders, excelColumns, savedTemplates, selectedTemplateId,
                   templateName, showSaveDialog, showRangeDialog, rangeStart,
                   rangeEnd, localStorage, mounted, now, docxJob, excelJob,
                   batches, call,
                   hasFileSystemSupport, fileHandles, loadJob, deleteJob>>

\* a Next button that is never disabled and does not clamp
NextRecord_Unclamped ==
    /\ PageClickable /\ isReady
    /\ currentIndex' = currentIndex + 1
    /\ lastOp' = Done
    /\ UNCHANGED <<data, docxTemplate, docxHtml, docxBinary, uploadStatus,
                   placeholders, excelColumns, savedTemplates, selectedTemplateId,
                   templateName, showSaveDialog, showRangeDialog, rangeStart,
                   rangeEnd, localStorage, mounted, now, docxJob, excelJob,
                   batches, hasFileSystemSupport, fileHandles, loadJob, deleteJob, call>>

\* the Next button
NextRecord ==
    /\ PageClickable /\ isReady
    /\ currentIndex # Len(data) - 1
    /\ currentIndex' = IF Len(data) - 1 < currentIndex + 1
                       THEN Len(data) - 1 ELSE currentIndex + 1
    /\ lastOp' = Done
    /\ UNCHANGED <<data, docxTemplate, docxHtml, docxBinary, uploadStatus,
                   placeholders, excelColumns, savedTemplates, selectedTemplateId,
                   templateName, showSaveDialog, showRangeDialog, rangeStart,
                   rangeEnd, localStorage, mounted, now, docxJob, excelJob,
                   batches, call,
                   hasFileSystemSupport, fileHandles, loadJob, deleteJob>>

\* the file downloadDocx hands to saveAs
SavedFile(doc, name) == [name |-> name \o <<".", "d", "o", "c", "x">>, doc |-> doc]

\* handleDownloadCurrent
HandleDownloadCurrent ==
    /\ PageClickable /\ isReady
    /\ LET blob == generateDocx(docxBinary, placeholders, data[currentIndex + 1])
       IN  lastOp' =
              IF blob.ok
              THEN Saved(SavedFile(blob, DownloadName(data[currentIndex + 1],
                                                      currentIndex)))
              ELSE CaughtAlerted("Error generating certificate. Please check your template and data.")
    /\ UNCHANGED <<data, docxTemplate, docxHtml, docxBinary, currentIndex,
                   uploadStatus, placeholders, excelColumns, savedTemplates,
                   selectedTemplateId, templateName, showSaveDialog,
                   showRangeDialog, rangeStart, rangeEnd, localStorage, mounted,
                   now, docxJob, excelJob, batches, call,
                   hasFileSystemSupport, fileHandles, loadJob, deleteJob>>

\* delays that shrink as the index grows
DownloadAllDelay_Descending(idx) == (MaxRecords - idx) * 500

\* the delay of the timer handleDownloadAll sets for the record at idx
DownloadAllDelay(idx) == idx * 500

\* a forEach that starts at the second record
DownloadAllIndices_SkipsFirst(records) == 1..(Len(records) - 1)

\* the indices data.forEach visits
DownloadAllIndices(records) == 0..(Len(records) - 1)

\* A batch: the timers handleDownloadAll or handleDownloadRange set, with
\* what their callbacks close over (the data, and the docxBinary and
\* placeholders generateDocx reads, of the render of the click), the indices
\* whose timers have fired in the order they fired, the files given to
\* saveAs in that order, and the indices whose generation threw.
NewBatch(kind, timers) ==
    [kind |-> kind, data |-> data, binary |-> docxBinary,
     placeholders |-> placeholders, timers |-> timers, scheduled |-> timers,
     fired |-> <<>>, downloads |-> <<>>, failed |-> {}]

\* handleDownloadAll
HandleDownloadAll ==
    /\ PageClickable /\ isReady
    /\ Len(batches) < MaxBatches
    /\ batches' = Append(batches,
            NewBatch("all", {[i |-> idx, delay |-> DownloadAllDelay(idx)] :
                                idx \in DownloadAllIndices(data)}))
    /\ lastOp' = Done
    /\ UNCHANGED <<data, docxTemplate, docxHtml, docxBinary, currentIndex,
                   uploadStatus, placeholders, excelColumns, savedTemplates,
                   selectedTemplateId, templateName, showSaveDialog,
                   showRangeDialog, rangeStart, rangeEnd, localStorage, mounted,
                   now, docxJob, excelJob, call,
                   hasFileSystemSupport, fileHandles, loadJob, deleteJob>>

\* the Download Range button
OpenRangeDialog ==
    /\ PageClickable /\ isReady
    /\ showRangeDialog' = TRUE
    /\ lastOp' = Done
    /\ UNCHANGED <<data, docxTemplate, docxHtml, docxBinary, currentIndex,
                   uploadStatus, placeholders, excelColumns, savedTemplates,
                   selectedTemplateId, templateName, showSaveDialog, rangeStart,
                   rangeEnd, localStorage, mounted, now, docxJob, excelJob,
                   batches, call,
                   hasFileSystemSupport, fileHandles, loadJob, deleteJob>>

\* the From Record field: setRangeStart(parseInt(e.target.value) || 1)
SetRangeStart(text) ==
    /\ RangeDialogClickable
    /\ rangeStart' = ParseIntOr(text, 1)
    /\ lastOp' = Done
    /\ UNCHANGED <<data, docxTemplate, docxHtml, docxBinary, currentIndex,
                   uploadStatus, placeholders, excelColumns, savedTemplates,
                   selectedTemplateId, templateName, showSaveDialog,
                   showRangeDialog, rangeEnd, localStorage, mounted, now, docxJob,
                   excelJob, batches, call,
                   hasFileSystemSupport, fileHandles, loadJob, deleteJob>>

\* the To Record field: setRangeEnd(parseInt(e.target.value) || data.length)
SetRangeEnd(text) ==
    /\ RangeDialogClickable
    /\ rangeEnd' = ParseIntOr(text, Len(data))
    /\ lastOp' = Done
    /\ UNCHANGED <<data, docxTemplate, docxHtml, docxBinary, currentIndex,
                   uploadStatus, placeholders, excelColumns, savedTemplates,
                   selectedTemplateId, templateName, showSaveDialog,
                   showRangeDialog, rangeStart, localStorage, mounted, now,
                   docxJob, excelJob, batches, call,
                   hasFileSystemSupport, fileHandles, loadJob, deleteJob>>

\* the Cancel button of the range dialog
CancelRange ==
    /\ RangeDialogClickable
    /\ showRangeDialog' = FALSE
    /\ lastOp' = Done
    /\ UNCHANGED <<data, docxTemplate, docxHtml, docxBinary, currentIndex,
                   uploadStatus, placeholders, excelColumns, savedTemplates,
                   selectedTemplateId, templateName, showSaveDialog, rangeStart,
                   rangeEnd, localStorage, mounted, now, docxJob, excelJob,
                   batches, call,
                   hasFileSystemSupport, fileHandles, loadJob, deleteJob>>

\* a test that lets a range end past the last record
RangeInvalid_NoUpperCheck(first, last, n) == first < 1 \/ first > last

\* rangeStart < 1 || rangeEnd > data.length || rangeStart > rangeEnd
RangeInvalid(first, last, n) == first < 1 \/ last > n \/ first > last

\* a loop that stops before the record numbered rangeEnd
RangeIndices_ExcludesEnd(first, last) == (first - 1)..(last - 2)

\* the values i takes in for (let i = rangeStart - 1; i < rangeEnd; i++)
RangeIndices(first, last) == (first - 1)..(last - 1)

\* the delay of the timer handleDownloadRange sets for the record at i
DownloadRangeDelay(i, first) == (i - first + 1) * 500

\* handleDownloadRange
HandleDownloadRange ==
    /\ RangeDialogClickable
    /\ IF RangeInvalid(rangeStart, rangeEnd, Len(data))
       THEN /\ lastOp' = Alerted("Invalid range. Please check your input.")
            /\ UNCHANGED <<batches, showRangeDialog>>
       ELSE /\ Len(batches) < MaxBatches
            /\ batches' = Append(batches,
                    NewBatch("range",
                        {[i |-> i, delay |-> DownloadRangeDelay(i, rangeStart)] :
                            i \in RangeIndices(rangeStart, rangeEnd)}))
            /\ showRangeDialog' = FALSE
            /\ lastOp' = Done
    /\ UNCHANGED <<data, docxTemplate, docxHtml, docxBinary, currentIndex,
                   uploadStatus, placeholders, excelColumns, savedTemplates,
                   selectedTemplateId, templateName, showSaveDialog, rangeStart,
                   rangeEnd, localStorage, mounted, now, docxJob, excelJob, call,
                   hasFileSystemSupport, fileHandles, loadJob, deleteJob>>

\* the timer of batch b that is due first
DueTimer(b) ==
    CHOOSE t \in batches[b].timers : \A u \in batches[b].timers : t.delay <= u.delay

\* a callback whose failure cancels the timers of its batch still pending
TimerFires_FailureStopsBatch(b) ==
    /\ b \in DOMAIN batches
    /\ batches[b].timers # {}
    /\ LET batch == batches[b]
           t == DueTimer(b)
           blob == generateDocx(batch.binary, batch.placeholders,
                                batch.data[t.i + 1])
       IN  IF blob.ok
           THEN LET file == SavedFile(blob, DownloadName(batch.data[t.i + 1], t.i))
                IN  /\ batches' = [batches EXCEPT
                            ![b].timers = @ \ {t},
                            ![b].fired = Append(@, t.i),
                            ![b].downloads = Append(@, [i |-> t.i, file |-> file])]
                    /\ lastOp' = Done
           ELSE /\ batches' = [batches EXCEPT
                        ![b].timers = {},
                        ![b].fired = Append(@, t.i),
                        ![b].failed = @ \cup {t.i}]
                /\ lastOp' = CaughtLogged
    /\ UNCHANGED <<data, docxTemplate, docxHtml, docxBinary, currentIndex,
                   uploadStatus, placeholders, excelColumns, savedTemplates,
                   selectedTemplateId, templateName, showSaveDialog,
                   showRangeDialog, rangeStart, rangeEnd, localStorage, mounted,
                   now, docxJob, excelJob, hasFileSystemSupport, fileHandles,
                   loadJob, deleteJob, call>>

\* a callback that reads the template and the records of the state in which
\* it runs
TimerFires_ReadsCurrentState(b) ==
    /\ b \in DOMAIN batches
    /\ batches[b].timers # {}
    /\ LET t == DueTimer(b)
           within == t.i + 1 \in DOMAIN data
           blob == IF within
                   THEN generateDocx(docxBinary, placeholders, data[t.i + 1])
                   ELSE [ok |-> FALSE]
       IN  IF blob.ok
           THEN LET file == SavedFile(blob, DownloadName(data[t.i + 1], t.i))
                IN  /\ batches' = [batches EXCEPT
                            ![b].timers = @ \ {t},
                            ![b].fired = Append(@, t.i),
                            ![b].downloads = Append(@, [i |-> t.i, file |-> file])]
                    /\ lastOp' = Done
           ELSE /\ batches' = [batches EXCEPT
                        ![b].timers = @ \ {t},
                        ![b].fired = Append(@, t.i),
                        ![b].failed = @ \cup {t.i}]
                /\ lastOp' = CaughtLogged
    /\ UNCHANGED <<data, docxTemplate, docxHtml, docxBinary, currentIndex,
                   uploadStatus, placeholders, excelColumns, savedTemplates,
                   selectedTemplateId, templateName, showSaveDialog,
                   showRangeDialog, rangeStart, rangeEnd, localStorage, mounted,
                   now, docxJob, excelJob, hasFileSystemSupport, fileHandles,
                   loadJob, deleteJob, call>>

\* the callback of a timer of batch b: generateDocx and downloadDocx inside
\* try, console.error in catch
TimerFires(b) ==
    /\ b \in DOMAIN batches
    /\ batches[b].timers # {}
    /\ LET batch == batches[b]
           t == DueTimer(b)
           within == t.i + 1 \in DOMAIN batch.data
           blob == IF within
                   THEN generateDocx(batch.binary, batch.placeholders,
                                     batch.data[t.i + 1])
                   ELSE [ok |-> FALSE]
       IN  IF blob.ok
           THEN LET file == SavedFile(blob, DownloadName(batch.data[t.i + 1], t.i))
                IN  /\ batches' = [batches EXCEPT
                            ![b].timers = @ \ {t},
                            ![b].fired = Append(@, t.i),
                            ![b].downloads = Append(@, [i |-> t.i, file |-> file])]
                    /\ lastOp' = Done
           ELSE /\ batches' = [batches EXCEPT
                        ![b].timers = @ \ {t},
                        ![b].fired = Append(@, t.i),
                        ![b].failed = @ \cup {t.i}]
                /\ lastOp' = CaughtLogged
    /\ UNCHANGED <<data, docxTemplate, docxHtml, docxBinary, currentIndex,
                   uploadStatus, placeholders, excelColumns, savedTemplates,
                   selectedTemplateId, templateName, showSaveDialog,
                   showRangeDialog, rangeStart, rangeEnd, localStorage, mounted,
                   now, docxJob, excelJob, call,
                   hasFileSystemSupport, fileHandles, loadJob, deleteJob>>

TimerFire == \E b \in 1..MaxBatches : TimerFires(b)

\* every handler, callback and timer of the component
Next ==
    \/ MountEffect
    \/ \E file \in DocxFiles : HandleDocxUpload(file)
    \/ DocxBytesRead
    \/ DocxConverted
    \/ \E text \in TypedNames : SetTemplateName(text)
    \/ CancelSave
    \/ \E quotaLeft \in BOOLEAN : SaveTemplate(quotaLeft)
    \/ \E i \in DOMAIN savedTemplates : LoadTemplate(savedTemplates[i])
    \/ \E i \in DOMAIN savedTemplates, confirmed \in BOOLEAN :
          DeleteTemplate(savedTemplates[i].id, confirmed)
    \/ \E file \in ExcelFiles : HandleExcelUpload(file)
    \/ ExcelLoaded
    \/ PreviousRecord
    \/ NextRecord
    \/ HandleDownloadCurrent
    \/ HandleDownloadAll
    \/ OpenRangeDialog
    \/ \E text \in TypedNumbers : SetRangeStart(text)
    \/ \E text \in TypedNumbers : SetRangeEnd(text)
    \/ CancelRange
    \/ HandleDownloadRange
    \/ TimerFire

Spec == Init /\ [][Next]_vars

(* DownloadAllSpec: the page opens on the list an earlier session stored;  *)
(* the user chooses template files or the stored template, chooses          *)
(* spreadsheets, and clicks Download All.                                   *)

BatchDocxFiles == {GoodDocx, NotZipDocx}

BatchExcelFiles == {Sheet(n) : n \in 1..MaxRecords}

DownloadAllInit ==
    /\ AppInit
    /\ localStorage = EarlierStorage
    /\ fileHandles = <<>>
    /\ call = IdleCall

DownloadAllNext ==
    \/ MountEffect
    \/ \E file \in BatchDocxFiles : HandleDocxUpload(file)
    \/ DocxBytesRead
    \/ DocxConverted
    \/ CancelSave
    \/ \E i \in DOMAIN savedTemplates : LoadTemplate(savedTemplates[i])
    \/ \E file \in BatchExcelFiles : HandleExcelUpload(file)
    \/ ExcelLoaded
    \/ HandleDownloadAll
    \/ TimerFire

DownloadAllSpec == DownloadAllInit /\ [][DownloadAllNext]_vars

\* the event loop runs a timer that is due
FairDownloadAllSpec == DownloadAllSpec /\ WF_vars(TimerFire)

(* RangeSpec: the page opens with nothing stored; the user chooses template *)
(* files and spreadsheets, and downloads ranges of records.                 *)

RangeInit ==
    /\ AppInit
    /\ localStorage = NULL
    /\ fileHandles = <<>>
    /\ call = IdleCall

RangeNext ==
    \/ MountEffect
    \/ \E file \in BatchDocxFiles : HandleDocxUpload(file)
    \/ DocxBytesRead
    \/ DocxConverted
    \/ CancelSave
    \/ \E file \in BatchExcelFiles : HandleExcelUpload(file)
    \/ ExcelLoaded
    \/ OpenRangeDialog
    \/ \E text \in TypedNumbers : SetRangeStart(text)
    \/ \E text \in TypedNumbers : SetRangeEnd(text)
    \/ CancelRange
    \/ HandleDownloadRange
    \/ TimerFire

RangeSpec == RangeInit /\ [][RangeNext]_vars

-----------------------------------------------------------------------------
(* Properties of the batch downloads and of the failure handling           *)

\* the record indices of the files batch b gave to saveAs, in order
DownloadedIndices(b) ==
    [k \in DOMAIN batches[b].downloads |-> batches[b].downloads[k].i]

\* batch b gave saveAs exactly one file for each record of the data of its
\* click, rendered from that record
OnePerRecord(b) ==
    LET batch == batches[b]
    IN  /\ Len(batch.downloads) = Len(batch.data)
        /\ \A r \in DOMAIN batch.data :
              \E k \in DOMAIN batch.downloads :
                 /\ batch.downloads[k].i = r - 1
                 /\ batch.downloads[k].file.doc.data =
                       TemplateData(batch.placeholders, batch.data[r])
                 /\ \A j \in DOMAIN batch.downloads :
                       batch.downloads[j].i = r - 1 => j = k

\* C1: a click on Download All, with a template and n >= 1 records loaded,
\* leads to a state where every timer of the click has fired and, if no
\* generation failed, exactly n files were downloaded, exactly one rendered
\* from each record, none skipped and none twice.
C1_DownloadAllEventuallyOnePerRecord ==
    \A b \in 1..MaxBatches :
       (b \in DOMAIN batches /\ batches[b].kind = "all")
          ~> (/\ b \in DOMAIN batches
              /\ batches[b].timers = {}
              /\ batches[b].failed = {} => OnePerRecord(b))

\* a Download All of several records has completed without a failure
C1_Witness ==
    \E b \in DOMAIN batches :
       /\ batches[b].kind = "all"
       /\ Len(batches[b].data) >= 2
       /\ batches[b].timers = {}
       /\ batches[b].failed = {}
       /\ OnePerRecord(b)

\* C5: every failure met at an I/O boundary is caught in the handler that
\* met it and reported with an alert: none leaves its handler uncaught and
\* none is caught without an alert.
C5_FailuresCaughtAndAlerted ==
    lastOp.fault # "none" => (lastOp.fault = "caught" /\ lastOp.alert # NoAlert)

\* C8: handleDownloadRange with rangeStart < 1, rangeEnd > data.length or
\* rangeStart > rangeEnd alerts, sets no timer and gives saveAs nothing,
\* leaves the range dialog open and changes no other state.
C8_InvalidRangeRejected ==
    [][(/\ HandleDownloadRange
        /\ (rangeStart < 1 \/ rangeEnd > Len(data) \/ rangeStart > rangeEnd))
       => /\ lastOp'.alert = "Invalid range. Please check your input."
          /\ lastOp'.saved = NULL
          /\ batches' = batches
          /\ showRangeDialog'
          /\ UNCHANGED <<data, docxTemplate, docxHtml, docxBinary, currentIndex,
                         uploadStatus, placeholders, excelColumns, savedTemplates,
                         selectedTemplateId, templateName, showSaveDialog,
                         rangeStart, rangeEnd, localStorage, mounted, now,
                         docxJob, excelJob, hasFileSystemSupport,
                         fileHandles, loadJob, deleteJob>>]_vars

\* a range ending past the last record has just been rejected
C8_Witness ==
    /\ lastOp.alert = "Invalid range. Please check your input."
    /\ showRangeDialog
    /\ rangeStart >= 1 /\ rangeStart <= rangeEnd
    /\ rangeEnd > Len(data)
    /\ batches = <<>>

-----------------------------------------------------------------------------
(* The file-system-handle revision: the handles kept in IndexedDB and the  *)
(* loading of the stored files when the page opens                         *)

MaxTemplateHandles == 2

\* the answers of handle.queryPermission({mode: 'read'})
Permissions == {"granted", "prompt", "denied"}

\* a FileSystemFileHandle: the name and content of its file and the state of
\* the read permission of the page
Handle(file, permission) == [name |-> file.name, file |-> file, permission |-> permission]

\* `template_${Date.now()}`
TemplateHandleId(t) ==
    <<"t", "e", "m", "p", "l", "a", "t", "e", "_">> \o IntToStr(t)

ExcelHandleId == <<"e", "x", "c", "e", "l">>

\* id.startsWith('template_')
IsTemplateHandleId(id) ==
    LitAt(id, 1, <<"t", "e", "m", "p", "l", "a", "t", "e", "_">>)

\* the spreadsheet files a handle can point at
StoredSheets ==
    {[name |-> <<"s", ".", "x", "l", "s", "x">>, ok |-> TRUE, rows |-> Sheet(2).rows],
     [name |-> <<"t", ".", "x", "l", "s", "x">>, ok |-> FALSE, rows |-> <<>>]}

StoredDocxFiles == {GoodDocx, OtherDocx, NotZipDocx}

\* what store.getAll() can return when the page opens: the records in key
\* order, the one with the key 'excel' if there is one before those with
\* the keys 'template_<time>'
TemplateHandleRecords(n) ==
    {[i \in 1..n |-> [id |-> TemplateHandleId(i), handle |-> hs[i]]] :
        hs \in [1..n -> {Handle(f, p) : f \in StoredDocxFiles, p \in Permissions}]}

StoredHandles ==
    LET templates == UNION {TemplateHandleRecords(n) : n \in 0..MaxTemplateHandles}
        excels == {<<>>} \cup
                  {<<[id |-> ExcelHandleId, handle |-> Handle(f, p)]>> :
                      f \in StoredSheets, p \in Permissions}
    IN  {e \o t : e \in excels, t \in templates}

\* handle.getFile(): the file, or a rejection (NotAllowedError) when the
\* read permission of the page is not 'granted'
GetFile(handle) ==
    IF handle.permission = "granted"
    THEN [ok |-> TRUE, file |-> handle.file]
    ELSE [ok |-> FALSE]

\* the SavedTemplate loadTemplateFromHandle builds, or a failure caught in it
loadTemplateFromHandle(handle, id) ==
    LET got == GetFile(handle)
    IN  IF ~got.ok THEN [ok |-> FALSE]
        ELSE LET arrayBuffer == Buf(got.file.bytes)
                 result == MammothConvert(arrayBuffer)
             IN  IF ~result.ok \/ ~DocxtemplaterLoads(arrayBuffer)
                 THEN [ok |-> FALSE]
                 ELSE [ok |-> TRUE,
                       template |->
                          [id |-> id,
                           name |-> RemoveFirst(got.file.name, 1,
                                                <<".", "d", "o", "c", "x">>),
                           fileName |-> got.file.name,
                           html |-> result.value,
                           binary |-> arrayBuffer,
                           placeholders |->
                              ExtractPlaceholders(DocumentText(arrayBuffer)),
                           uploadDate |-> LocaleDateString(0)]]

\* the rows loadExcelFromHandle reads, or a failure caught in it
loadExcelFromHandle(handle) ==
    LET got == GetFile(handle)
    IN  IF ~got.ok \/ ~got.file.ok THEN [ok |-> FALSE]
        ELSE [ok |-> TRUE, rows |-> got.file.rows]

StartupInit ==
    /\ AppInit
    /\ localStorage = NULL
    /\ fileHandles \in StoredHandles
    /\ call = IdleCall

\* the two effects after the first render: the first sets
\* hasFileSystemSupport, the second finds it false and returns
SupportEffect(supported) ==
    /\ ~mounted
    /\ mounted' = TRUE
    /\ hasFileSystemSupport' = supported
    /\ lastOp' = Done
    /\ UNCHANGED <<data, docxTemplate, docxHtml, docxBinary, currentIndex,
                   uploadStatus, placeholders, excelColumns, savedTemplates,
                   selectedTemplateId, templateName, showSaveDialog,
                   showRangeDialog, rangeStart, rangeEnd, localStorage, now,
                   docxJob, excelJob, batches, fileHandles, loadJob, deleteJob, call>>

\* the effect of the render in which hasFileSystemSupport is true:
\* loadSavedFiles up to its await of getAllFileHandles(); docxBinary is the
\* one loadTemplateFromHandle of this render closes over
LoadSavedFiles ==
    /\ mounted /\ hasFileSystemSupport
    /\ loadJob = NULL
    /\ loadJob' = [pc |-> "getAllFileHandles", handles |-> <<>>, i |-> 0,
                   docxBinary |-> docxBinary, attempted |-> {}, failed |-> {}]
    /\ lastOp' = Done
    /\ UNCHANGED <<data, docxTemplate, docxHtml, docxBinary, currentIndex,
                   uploadStatus, placeholders, excelColumns, savedTemplates,
                   selectedTemplateId, templateName, showSaveDialog,
                   showRangeDialog, rangeStart, rangeEnd, localStorage, mounted,
                   now, docxJob, excelJob, batches, hasFileSystemSupport,
                   fileHandles, deleteJob, call>>

\* getAllFileHandles() resolves with the records of the store, or rejects
\* and the outer catch logs it
HandlesRead(opened) ==
    /\ loadJob # NULL /\ loadJob.pc = "getAllFileHandles"
    /\ IF opened
       THEN /\ loadJob' = [loadJob EXCEPT
                   !.pc = IF Len(fileHandles) = 0 THEN "done" ELSE "loop",
                   !.handles = fileHandles, !.i = 1]
            /\ lastOp' = Done
       ELSE /\ loadJob' = [loadJob EXCEPT !.pc = "done"]
            /\ lastOp' = CaughtLogged
    /\ UNCHANGED <<data, docxTemplate, docxHtml, docxBinary, currentIndex,
                   uploadStatus, placeholders, excelColumns, savedTemplates,
                   selectedTemplateId, templateName, showSaveDialog,
                   showRangeDialog, rangeStart, rangeEnd, localStorage, mounted,
                   now, docxJob, excelJob, batches, hasFileSystemSupport,
                   fileHandles, deleteJob, call>>

\* one turn of the loop of loadSavedFiles over the handles: the permission
\* query, then loadTemplateFromHandle or loadExcelFromHandle, each with its
\* own catch; attempted and failed keep the ids whose file was asked for and
\* whose loading threw
LoadHandle ==
    /\ loadJob # NULL /\ loadJob.pc = "loop"
    /\ LET id == loadJob.handles[loadJob.i].id
           handle == loadJob.handles[loadJob.i].handle
           permitted == handle.permission \in {"granted", "prompt"}
           asTemplate == permitted /\ IsTemplateHandleId(id)
           asExcel == permitted /\ ~IsTemplateHandleId(id) /\ id = ExcelHandleId
           loaded == loadTemplateFromHandle(handle, id)
           sheet == loadExcelFromHandle(handle)
           threw == (asTemplate /\ ~loaded.ok) \/ (asExcel /\ ~sheet.ok)
       IN  /\ loadJob' = [loadJob EXCEPT
                  !.pc = IF loadJob.i = Len(loadJob.handles) THEN "done" ELSE "loop",
                  !.i = @ + 1,
                  !.attempted = IF asTemplate \/ asExcel THEN @ \cup {id} ELSE @,
                  !.failed = IF threw THEN @ \cup {id} ELSE @]
           /\ lastOp' = IF threw THEN CaughtLogged ELSE Done
           /\ IF asTemplate /\ loaded.ok
              THEN /\ savedTemplates' =
                         Append(FilterOut(savedTemplates, id), loaded.template)
                   /\ IF loadJob.docxBinary = NULL
                      THEN /\ docxHtml' = loaded.template.html
                           /\ docxTemplate' = loaded.template.html
                           /\ docxBinary' = loaded.template.binary
                           /\ placeholders' = loaded.template.placeholders
                           /\ uploadStatus' = [uploadStatus EXCEPT !.docx = TRUE]
                           /\ selectedTemplateId' = id
                      ELSE UNCHANGED <<docxHtml, docxTemplate, docxBinary,
                                       placeholders, uploadStatus,
                                       selectedTemplateId>>
                   /\ UNCHANGED <<data, excelColumns, currentIndex, rangeEnd>>
              ELSE IF asExcel /\ sheet.ok /\ Len(sheet.rows) > 0
              THEN LET processedData == processExcelData(sheet.rows, BrowserTimeZone)
                   IN  /\ data' = processedData
                       /\ excelColumns' = Keys(sheet.rows[1])
                       /\ currentIndex' = 0
                       /\ rangeEnd' = Len(processedData)
                       /\ uploadStatus' = [uploadStatus EXCEPT !.excel = TRUE]
                       /\ UNCHANGED <<savedTemplates, docxHtml, docxTemplate,
                                      docxBinary, placeholders, selectedTemplateId>>
              ELSE UNCHANGED <<savedTemplates, docxHtml, docxTemplate, docxBinary,
                               placeholders, uploadStatus, selectedTemplateId,
                               data, excelColumns, currentIndex, rangeEnd>>
    /\ UNCHANGED <<templateName, showSaveDialog, showRangeDialog, rangeStart,
                   localStorage, mounted, now, docxJob, excelJob, batches,
                   hasFileSystemSupport, fileHandles, deleteJob, call>>

(* StartupSpec: the page of the file-system-handle revision opens on every *)
(* store of at most MaxTemplateHandles template handles and one            *)
(* spreadsheet handle, and loads the stored files                          *)

StartupNext ==
    \/ \E supported \in BOOLEAN : SupportEffect(supported)
    \/ LoadSavedFiles
    \/ \E opened \in BOOLEAN : HandlesRead(opened)
    \/ LoadHandle

StartupSpec == StartupInit /\ [][StartupNext]_vars

\* the stored handles whose file reads and parses: what a load of them gives
ReadableAs(record) ==
    LET file == record.handle.file
    IN  IF IsTemplateHandleId(record.id)
        THEN MammothConvert(Buf(file.bytes)).ok /\ DocxtemplaterLoads(Buf(file.bytes))
        ELSE file.ok

\* C11: when loadSavedFiles has gone through the stored handles, every
\* handle whose permission is 'granted' or 'prompt' and whose file reads
\* has been loaded (a 'template_' id has an entry with that id in
\* savedTemplates, the id 'excel' gave the record data), no handle with
\* another permission was read, and every handle after one whose loading
\* failed was still gone through.
C11_StoredHandlesLoaded ==
    (loadJob # NULL /\ loadJob.pc = "done" /\ loadJob.i > 0) =>
       /\ loadJob.i = Len(loadJob.handles) + 1
       /\ \A k \in DOMAIN loadJob.handles :
             LET record == loadJob.handles[k]
             IN  IF record.handle.permission \in {"granted", "prompt"}
                 THEN /\ record.id \in loadJob.attempted
                      /\ ReadableAs(record) =>
                            IF IsTemplateHandleId(record.id)
                            THEN \E t \in DOMAIN savedTemplates :
                                    savedTemplates[t].id = record.id
                            ELSE /\ uploadStatus.excel
                                 /\ data = processExcelData(record.handle.file.rows,
                                                            BrowserTimeZone)
                 ELSE record.id \notin loadJob.attempted

-----------------------------------------------------------------------------
(* ExtractSpec: the placeholder extraction applied to every text of at     *)
(* most MaxTextLen characters of TextChars                                 *)

MaxTextLen == 6

TextChars == {"{", "}", "[", "]", "a", "A"}

ExtractInit ==
    /\ AppInit
    /\ localStorage = NULL
    /\ fileHandles = <<>>
    /\ \E t \in SeqsUpTo(TextChars, MaxTextLen) :
          call = [fn |-> "extractPlaceholders", pc |-> "args",
                  text |-> t, result |-> <<>>]

ExtractCall ==
    /\ call.fn = "extractPlaceholders" /\ call.pc = "args"
    /\ call' = [call EXCEPT !.pc = "done",
                            !.result = ExtractPlaceholders(call.text)]
    /\ UNCHANGED appVars

ExtractNext == ExtractCall

ExtractSpec == ExtractInit /\ [][ExtractNext]_vars

\* whether text[i..j] is open, one or more word characters, close
IsToken(text, i, j, open, close) ==
    /\ j > i + 1
    /\ text[i] = open /\ text[j] = close
    /\ \A x \in (i + 1)..(j - 1) : IsWordChar(text[x])

\* the positions at which the name w stands in text as {w} or [w] (a {{w}}
\* holds a {w})
Occurrences(text, w) ==
    {i \in DOMAIN text :
        \E j \in DOMAIN text :
           /\ IsToken(text, i, j, "{", "}") \/ IsToken(text, i, j, "[", "]")
           /\ Slice(text, i + 1, j - 1) = w}

\* the names that stand in text as {w}, {{w}} or [w]
TokenNames(text) ==
    {Slice(text, i + 1, j - 1) : <<i, j>> \in
        {p \in (DOMAIN text) \X (DOMAIN text) :
            \/ IsToken(text, p[1], p[2], "{", "}")
            \/ IsToken(text, p[1], p[2], "[", "]")}}

FirstOccurrence(text, w) ==
    CHOOSE i \in Occurrences(text, w) : \A j \in Occurrences(text, w) : i <= j

\* C12: the placeholders extracted from a text are exactly the names w
\* standing in it as {w}, {{w}} or [w], each once, names differing in case
\* apart, in the order of their first occurrence.
C12_ExtractionExact ==
    (call.fn = "extractPlaceholders" /\ call.pc = "done") =>
       LET found == call.result
       IN  /\ {found[k] : k \in DOMAIN found} = TokenNames(call.text)
           /\ \A j, k \in DOMAIN found : found[j] = found[k] => j = k
           /\ \A j, k \in DOMAIN found :
                 j < k => FirstOccurrence(call.text, found[j])
                             < FirstOccurrence(call.text, found[k])

\* "[a]{A}": two names differing in case only, in the order of the text
C12_Witness ==
    /\ call.fn = "extractPlaceholders" /\ call.pc = "done"
    /\ call.text = <<"[", "a", "]", "{", "A", "}">>
    /\ call.result = << <<"a">>, <<"A">> >>

-----------------------------------------------------------------------------
(* Printing all certificates                                               *)

\* a section that always breaks the page
PageBreakAfter_Always(idx, n) == "always"

\* ${idx < data.length - 1 ? 'always' : 'auto'}
PageBreakAfter(idx, n) == IF idx < n - 1 THEN "always" ELSE "auto"

\* data.map((record, idx) => `<div style="page-break-after: ...">${merged}
\* </div>`): the sections that join('') puts one after the other
AllCertificates(html, records) ==
    [x \in DOMAIN records |->
        [pageBreakAfter |-> PageBreakAfter(x - 1, Len(records)),
         html |-> mergeCertificate(html, records[x])]]

\* handlePrintAll; popupOpens tells whether window.open gives a window
HandlePrintAll(popupOpens) ==
    /\ PageClickable /\ isReady
    /\ lastOp' = IF popupOpens
                 THEN Printed([title |-> "All Certificates",
                               body |-> AllCertificates(docxHtml, data)])
                 ELSE Done
    /\ UNCHANGED <<data, docxTemplate, docxHtml, docxBinary, currentIndex,
                   uploadStatus, placeholders, excelColumns, savedTemplates,
                   selectedTemplateId, templateName, showSaveDialog,
                   showRangeDialog, rangeStart, rangeEnd, localStorage, mounted,
                   now, docxJob, excelJob, batches, hasFileSystemSupport,
                   fileHandles, loadJob, deleteJob, call>>

(* PreviewSpec: the page opens on the list an earlier session stored; the  *)
(* user chooses template files or stored templates, chooses spreadsheets,  *)
(* pages through the records, downloads the current one and prints all.   *)

PreviewInit ==
    /\ AppInit
    /\ localStorage = EarlierStorage
    /\ fileHandles = <<>>
    /\ call = IdleCall

PreviewNext ==
    \/ MountEffect
    \/ \E file \in DocxFiles : HandleDocxUpload(file)
    \/ DocxBytesRead
    \/ DocxConverted
    \/ CancelSave
    \/ \E i \in DOMAIN savedTemplates : LoadTemplate(savedTemplates[i])
    \/ \E i \in DOMAIN savedTemplates, confirmed \in BOOLEAN :
          DeleteTemplate(savedTemplates[i].id, confirmed)
    \/ \E file \in ExcelFiles : HandleExcelUpload(file)
    \/ ExcelLoaded
    \/ PreviousRecord
    \/ NextRecord
    \/ HandleDownloadCurrent
    \/ \E popupOpens \in BOOLEAN : HandlePrintAll(popupOpens)

PreviewSpec == PreviewInit /\ [][PreviewNext]_vars

\* C13: the document handlePrintAll writes has one section per record, in
\* the order of the records, each holding the template merged with its
\* record; every section but the last breaks the page after it ('always')
\* and the last does not ('auto').
C13_PrintAllSections ==
    lastOp.printed # NULL =>
       LET sections == lastOp.printed.body
           n == Len(data)
       IN  /\ n >= 1
           /\ Len(sections) = n
           /\ \A x \in 1..n :
                 /\ sections[x].html = mergeCertificate(docxHtml, data[x])
                 /\ x < n => sections[x].pageBreakAfter = "always"
                 /\ x = n => sections[x].pageBreakAfter = "auto"

\* two records have been printed, with different merged sections
C13_Witness ==
    /\ lastOp.printed # NULL
    /\ Len(data) = 2
    /\ Len(lastOp.printed.body) = 2
    /\ lastOp.printed.body[1].pageBreakAfter = "always"
    /\ lastOp.printed.body[2].pageBreakAfter = "auto"
    /\ lastOp.printed.body[1].html # lastOp.printed.body[2].html

-----------------------------------------------------------------------------
(* The double-brace token in the HTML merge                                *)

\* whether s holds none of the characters of a token's delimiters
Plain(s) == \A x \in DOMAIN s : s[x] \notin {"{", "}", "[", "]"}

\* C15: for a record column k with the value v, a {{k}} of the template
\* becomes exactly v: a template that is plain text around one {{k}} is
\* merged into that text around v, no brace of the token left.
C15_DoubleBraceReplacedByValue ==
    (call.fn = "mergeCertificate" /\ call.pc = "done" /\ Len(call.record) = 1) =>
       LET key == call.record[1].k
           value == CellText(call.record[1].v)
           token == <<"{", "{">> \o key \o <<"}", "}">>
           template == call.template
       IN  \A i \in DOMAIN template :
              LET before == SubSeq(template, 1, i - 1)
                  after == SubSeq(template, i + Len(token), Len(template))
              IN  (LitAt(template, i, token) /\ Plain(before) /\ Plain(after))
                     => call.result = before \o value \o after

-----------------------------------------------------------------------------
(* The record shown in the preview                                         *)

\* C14: whenever the preview is available (both uploadStatus flags true)
\* there is at least one record and currentIndex is the index of one,
\* 0 <= currentIndex <= data.length - 1.
C14_CurrentIndexInRange ==
    isReady => /\ Len(data) >= 1
               /\ 0 <= currentIndex /\ currentIndex <= Len(data) - 1

\* the preview shows the last of several records
C14_Witness ==
    /\ isReady
    /\ Len(data) >= 2
    /\ currentIndex = Len(data) - 1

-----------------------------------------------------------------------------
(* A template upload that fails                                            *)

\* whether handleDocxUpload throws on the file: in mammoth.convertToHtml, or
\* in PizZip and Docxtemplater
UploadFails(file) ==
    \/ ~MammothConvert(Buf(file.bytes)).ok
    \/ ~DocxtemplaterLoads(Buf(file.bytes))

\* C16: a handleDocxUpload that fails leaves the active template as it was
\* before it started: no step of it, up to and including the one that
\* alerts, changes docxBinary, docxHtml, placeholders, uploadStatus.docx or
\* selectedTemplateId.
C16_FailedUploadKeepsTemplate ==
    [][(/\ DocxBytesRead \/ DocxConverted
        /\ UploadFails(docxJob.file))
       => /\ docxBinary' = docxBinary
          /\ docxHtml' = docxHtml
          /\ placeholders' = placeholders
          /\ uploadStatus'.docx = uploadStatus.docx
          /\ selectedTemplateId' = selectedTemplateId]_vars

-----------------------------------------------------------------------------
(* BatchSpec: the page opens with nothing stored; the user chooses         *)
(* template files and spreadsheets, and downloads all records or ranges    *)
(* of them.                                                                *)

BatchNext ==
    \/ MountEffect
    \/ \E file \in BatchDocxFiles : HandleDocxUpload(file)
    \/ DocxBytesRead
    \/ DocxConverted
    \/ CancelSave
    \/ \E file \in BatchExcelFiles : HandleExcelUpload(file)
    \/ ExcelLoaded
    \/ HandleDownloadAll
    \/ OpenRangeDialog
    \/ \E text \in TypedNumbers : SetRangeStart(text)
    \/ \E text \in TypedNumbers : SetRangeEnd(text)
    \/ CancelRange
    \/ HandleDownloadRange
    \/ TimerFire

BatchSpec == RangeInit /\ [][BatchNext]_vars

\* C17: in a batch download a failure while generating the document of one
\* record does not stop the batch: whatever has failed, every record of the
\* batch is either still pending, and a pending timer can fire, or has been
\* attempted, and has been downloaded if its generation succeeds.
C17_FailureDoesNotStopBatch ==
    \A b \in DOMAIN batches :
       LET batch == batches[b]
           pending == {t.i : t \in batch.timers}
           attempted == {batch.fired[k] : k \in DOMAIN batch.fired}
       IN  /\ pending \cup attempted = {t.i : t \in batch.scheduled}
           /\ batch.failed \subseteq attempted
           /\ batch.timers # {} => ENABLED TimerFires(b)
           /\ \A i \in attempted :
                 generateDocx(batch.binary, batch.placeholders,
                              batch.data[i + 1]).ok
                    => \E k \in DOMAIN batch.downloads : batch.downloads[k].i = i

\* a batch of several records all of whose generations failed has been
\* gone through to its end
C17_Witness ==
    \E b \in DOMAIN batches :
       /\ batches[b].timers = {}
       /\ Cardinality(batches[b].scheduled) >= 2
       /\ batches[b].failed = {t.i : t \in batches[b].scheduled}

-----------------------------------------------------------------------------
(* The calendar date of a serial                                           *)

\* C18: a whole-number serial s taken for a date is written as the calendar
\* date s - 25569 days after 1 January 1970, whatever the time zone of the
\* browser.
C18_SerialToCalendarDate ==
    (call.fn = "processExcelData" /\ call.pc = "done") =>
        \A r \in DOMAIN call.jsonData :
            \A c \in DOMAIN call.jsonData[r] :
                LET old == call.jsonData[r][c].v
                    new == call.result[r][c].v
                IN  (old.t = "num" /\ LooksLikeDate(old))
                       => new = Str(FormatLongDate(CivilFromDays(old.n - EpochSerial)))

-----------------------------------------------------------------------------
(* LibrarySpec: the page opens on an empty storage or on the list an       *)
(* earlier session stored; the user chooses template files, names and      *)
(* saves them, loads stored templates and deletes them.                    *)

LibraryNext ==
    \/ MountEffect
    \/ \E file \in DocxFiles : HandleDocxUpload(file)
    \/ DocxBytesRead
    \/ DocxConverted
    \/ \E text \in TypedNames : SetTemplateName(text)
    \/ CancelSave
    \/ \E quotaLeft \in BOOLEAN : SaveTemplate(quotaLeft)
    \/ \E i \in DOMAIN savedTemplates : LoadTemplate(savedTemplates[i])
    \/ \E i \in DOMAIN savedTemplates, confirmed \in BOOLEAN :
          DeleteTemplate(savedTemplates[i].id, confirmed)

LibrarySpec == Init /\ [][LibraryNext]_vars

\* the ids of a list of templates, in its order
Ids(templates) == [i \in DOMAIN templates |-> templates[i].id]

\* the ids of the list under the key 'certificateTemplates'
StoredIds == IF localStorage = NULL THEN <<>> ELSE Ids(localStorage.json)

-----------------------------------------------------------------------------
(* The template active after the stored files are loaded                   *)

\* C20: while and after loadSavedFiles loads the stored handles, the active
\* template (docxBinary, docxHtml, placeholders, selectedTemplateId) is the
\* first template it loaded; those loaded after it are added to
\* savedTemplates and do not replace it.
C20_FirstLoadedTemplateStaysActive ==
    (loadJob # NULL /\ Len(savedTemplates) >= 1) =>
       /\ selectedTemplateId = savedTemplates[1].id
       /\ docxBinary = savedTemplates[1].binary
       /\ docxHtml = savedTemplates[1].html
       /\ placeholders = savedTemplates[1].placeholders


-----------------------------------------------------------------------------
(* The template flag and the template binary                               *)

\* C21: in every reachable state uploadStatus.docx is true only if
\* docxBinary is not null, so that the download buttons, enabled by isReady,
\* never call generateDocx without a template binary.
C21_DocxFlagImpliesBinary ==
    uploadStatus.docx => docxBinary # NULL


-----------------------------------------------------------------------------
(* The order of the downloads of a batch                                   *)

\* C22: within one batch the downloads are triggered in strictly ascending
\* record order: the files given to saveAs so far are in ascending order of
\* their records' indices, and every record whose timer is still pending
\* comes after all of them.
C22_DownloadsInAscendingOrder ==
    \A b \in DOMAIN batches :
       LET batch == batches[b]
       IN  /\ \A j, k \in DOMAIN batch.downloads :
                 j < k => batch.downloads[j].i < batch.downloads[k].i
           /\ \A k \in DOMAIN batch.downloads : \A t \in batch.timers :
                 batch.downloads[k].i < t.i

\* a batch has downloaded its first record and its second is still pending
C22_Witness ==
    \E b \in DOMAIN batches :
       /\ DownloadedIndices(b) = <<0>>
       /\ {t.i : t \in batches[b].timers} = {1}


-----------------------------------------------------------------------------
(* SnapshotSpec: the page opens on the list an earlier session stored; the *)
(* user chooses a template file or the stored template, deletes the stored *)
(* template, chooses spreadsheets, and downloads all records or the range  *)
(* the dialog proposes, while the timers of the batch are pending.         *)

SnapshotNext ==
    \/ MountEffect
    \/ HandleDocxUpload(GoodDocx)
    \/ DocxBytesRead
    \/ DocxConverted
    \/ CancelSave
    \/ \E i \in DOMAIN savedTemplates : LoadTemplate(savedTemplates[i])
    \/ \E i \in DOMAIN savedTemplates : DeleteTemplate(savedTemplates[i].id, TRUE)
    \/ \E file \in BatchExcelFiles : HandleExcelUpload(file)
    \/ ExcelLoaded
    \/ HandleDownloadAll
    \/ OpenRangeDialog
    \/ HandleDownloadRange
    \/ TimerFire

SnapshotSpec == DownloadAllInit /\ [][SnapshotNext]_vars

\* C23: the documents of a batch are generated from the template binary, the
\* placeholder list and the records that were active at the click: the click
\* records them, no later step changes what the batch holds of them, and
\* every file the batch gives to saveAs is rendered from them, whatever the
\* active template and the records are when its timer fires.
C23_BatchUsesStateOfClick ==
    /\ [][/\ (HandleDownloadAll \/ (HandleDownloadRange /\ batches' # batches))
             => LET new == batches'[Len(batches')]
                IN  /\ new.binary = docxBinary
                    /\ new.placeholders = placeholders
                    /\ new.data = data
          /\ \A b \in DOMAIN batches :
                /\ batches'[b].binary = batches[b].binary
                /\ batches'[b].placeholders = batches[b].placeholders
                /\ batches'[b].data = batches[b].data]_vars
    /\ [](\A b \in DOMAIN batches :
             LET batch == batches[b]
             IN  \A k \in DOMAIN batch.downloads :
                    LET file == batch.downloads[k].file
                        record == batch.data[batch.downloads[k].i + 1]
                    IN  /\ file.doc.template = batch.binary
                        /\ file.doc.data = TemplateData(batch.placeholders, record)
                        /\ file.name = DownloadName(record, batch.downloads[k].i)
                                          \o <<".", "d", "o", "c", "x">>)

\* a batch of two records has downloaded both from the template and the
\* records of its click, while another template is active and a shorter
\* spreadsheet is loaded
C23_Witness ==
    \E b \in DOMAIN batches :
       /\ batches[b].timers = {}
       /\ DownloadedIndices(b) = <<0, 1>>
       /\ docxBinary # NULL
       /\ docxBinary # batches[b].binary
       /\ placeholders # batches[b].placeholders
       /\ Len(data) = 1
       /\ batches[b].downloads[2].file.doc.template = batches[b].binary


-----------------------------------------------------------------------------
(* What a confirmed deleteTemplate changes                                 *)

-----------------------------------------------------------------------------
(* The file-system-handle revision: choosing, loading and deleting         *)
(* templates                                                               *)

MaxPicks == 1

\* the files the user can choose in the file picker
PickedDocxFiles == {GoodDocx, OtherDocx, NotZipDocx}

\* Date.now() at the t-th choice of a file: later than the times in the ids
\* of the handles stored by earlier sessions
PickTime(t) == MaxTemplateHandles + t

\* the file picker of the browser is open: it is modal, the page takes no
\* click
PickerOpen == docxJob # NULL /\ docxJob.pc = "showOpenFilePicker"

\* store.put({id, handle}): the record replaces the one with its key; a new
\* 'template_<time>' key comes after the keys stored before it
PutHandle(records, id, handle) ==
    Append(FilterOut(records, id), [id |-> id, handle |-> handle])

\* handleDocxUpload up to its await of showOpenFilePicker(); docxBinary is
\* the one loadTemplateFromHandle of the render of the click closes over
HandleDocxUploadPicker ==
    /\ PageClickable /\ ~PickerOpen
    /\ docxJob = NULL
    /\ IF ~hasFileSystemSupport
       THEN /\ lastOp' = Alerted("File System Access API is not supported in your browser. Please use Chrome, Edge, or another Chromium-based browser.")
            /\ UNCHANGED docxJob
       ELSE /\ docxJob' = [pc |-> "showOpenFilePicker", docxBinary |-> docxBinary,
                           id |-> NullString, handle |-> NULL]
            /\ lastOp' = Done
    /\ UNCHANGED <<data, docxTemplate, docxHtml, docxBinary, currentIndex,
                   uploadStatus, placeholders, excelColumns, savedTemplates,
                   selectedTemplateId, templateName, showSaveDialog,
                   showRangeDialog, rangeStart, rangeEnd, localStorage, mounted,
                   now, excelJob, batches, hasFileSystemSupport, fileHandles,
                   loadJob, deleteJob, call>>

\* showOpenFilePicker() resolves with the handle of the file the user chose,
\* readable by the page, or rejects with AbortError when the user closes the
\* picker, which the catch passes over in silence; then
\* id = `template_${Date.now()}`, up to the await of saveFileHandle
FilePicked(file, aborted) ==
    /\ PickerOpen
    /\ IF aborted
       THEN /\ docxJob' = NULL
            /\ lastOp' = CaughtLogged
            /\ UNCHANGED now
       ELSE /\ now <= MaxPicks
            /\ docxJob' = [docxJob EXCEPT
                   !.pc = "saveFileHandle",
                   !.id = TemplateHandleId(PickTime(now)),
                   !.handle = Handle(file, "granted")]
            /\ now' = now + 1
            /\ lastOp' = Done
    /\ UNCHANGED <<data, docxTemplate, docxHtml, docxBinary, currentIndex,
                   uploadStatus, placeholders, excelColumns, savedTemplates,
                   selectedTemplateId, templateName, showSaveDialog,
                   showRangeDialog, rangeStart, rangeEnd, localStorage, mounted,
                   excelJob, batches, hasFileSystemSupport, fileHandles,
                   loadJob, deleteJob, call>>

\* saveFileHandle(id, fileHandle) resolves, the record being in the store,
\* or rejects, which the catch of handleDocxUpload reports
FileHandleSaved(stored) ==
    /\ docxJob # NULL /\ docxJob.pc = "saveFileHandle"
    /\ IF stored
       THEN /\ fileHandles' = PutHandle(fileHandles, docxJob.id, docxJob.handle)
            /\ docxJob' = [docxJob EXCEPT !.pc = "loadTemplateFromHandle"]
            /\ lastOp' = Done
       ELSE /\ docxJob' = NULL
            /\ lastOp' = CaughtAlerted("Error selecting file. Please try again.")
            /\ UNCHANGED fileHandles
    /\ UNCHANGED <<data, docxTemplate, docxHtml, docxBinary, currentIndex,
                   uploadStatus, placeholders, excelColumns, savedTemplates,
                   selectedTemplateId, templateName, showSaveDialog,
                   showRangeDialog, rangeStart, rangeEnd, localStorage, mounted,
                   now, excelJob, batches, hasFileSystemSupport, loadJob,
                   deleteJob, call>>

\* loadTemplateFromHandle(fileHandle, id) called by handleDocxUpload, from
\* its last await to its end or to its catch
PickedTemplateLoaded ==
    /\ docxJob # NULL /\ docxJob.pc = "loadTemplateFromHandle"
    /\ docxJob' = NULL
    /\ LET loaded == loadTemplateFromHandle(docxJob.handle, docxJob.id)
       IN  IF loaded.ok
           THEN /\ savedTemplates' =
                      Append(FilterOut(savedTemplates, docxJob.id), loaded.template)
                /\ lastOp' = Done
                /\ IF docxJob.docxBinary = NULL
                   THEN /\ docxHtml' = loaded.template.html
                        /\ docxTemplate' = loaded.template.html
                        /\ docxBinary' = loaded.template.binary
                        /\ placeholders' = loaded.template.placeholders
                        /\ uploadStatus' = [uploadStatus EXCEPT !.docx = TRUE]
                        /\ selectedTemplateId' = docxJob.id
                   ELSE UNCHANGED <<docxHtml, docxTemplate, docxBinary,
                                    placeholders, uploadStatus, selectedTemplateId>>
           ELSE /\ lastOp' = CaughtLogged
                /\ UNCHANGED <<savedTemplates, docxHtml, docxTemplate, docxBinary,
                               placeholders, uploadStatus, selectedTemplateId>>
    /\ UNCHANGED <<data, currentIndex, excelColumns, templateName, showSaveDialog,
                   showRangeDialog, rangeStart, rangeEnd, localStorage, mounted,
                   now, excelJob, batches, hasFileSystemSupport, fileHandles,
                   loadJob, deleteJob, call>>

\* deleteTemplate(id) up to its await of deleteFileHandle(id), the user
\* answering the confirm() with confirmed; savedTemplates and
\* selectedTemplateId are those of the render of the click, which the rest
\* of the call reads
DeleteTemplateClick(id, confirmed) ==
    /\ PageClickable /\ ~PickerOpen
    /\ deleteJob = NULL
    /\ deleteJob' = IF confirmed
                    THEN [id |-> id, savedTemplates |-> savedTemplates,
                          selectedTemplateId |-> selectedTemplateId]
                    ELSE deleteJob
    /\ lastOp' = Done
    /\ UNCHANGED <<data, docxTemplate, docxHtml, docxBinary, currentIndex,
                   uploadStatus, placeholders, excelColumns, savedTemplates,
                   selectedTemplateId, templateName, showSaveDialog,
                   showRangeDialog, rangeStart, rangeEnd, localStorage, mounted,
                   now, docxJob, excelJob, batches, hasFileSystemSupport,
                   fileHandles, loadJob, call>>

\* deleteFileHandle(id) resolves, the record being out of the store, and
\* deleteTemplate runs to its end; or it rejects and the catch reports it
FileHandleDeleted(deleted) ==
    /\ deleteJob # NULL
    /\ deleteJob' = NULL
    /\ IF deleted
       THEN /\ fileHandles' = FilterOut(fileHandles, deleteJob.id)
            /\ savedTemplates' = FilterOut(deleteJob.savedTemplates, deleteJob.id)
            /\ lastOp' = Done
            /\ IF deleteJob.selectedTemplateId = deleteJob.id
               THEN /\ docxHtml' = <<>>
                    /\ docxTemplate' = <<>>
                    /\ docxBinary' = NULL
                    /\ placeholders' = <<>>
                    /\ uploadStatus' = [uploadStatus EXCEPT !.docx = FALSE]
                    /\ selectedTemplateId' = NullString
               ELSE UNCHANGED <<docxHtml, docxTemplate, docxBinary, placeholders,
                                uploadStatus, selectedTemplateId>>
       ELSE /\ lastOp' = CaughtAlerted("Error deleting template. Please try again.")
            /\ UNCHANGED <<fileHandles, savedTemplates, docxHtml, docxTemplate,
                           docxBinary, placeholders, uploadStatus,
                           selectedTemplateId>>
    /\ UNCHANGED <<data, currentIndex, excelColumns, templateName, showSaveDialog,
                   showRangeDialog, rangeStart, rangeEnd, localStorage, mounted,
                   now, docxJob, excelJob, batches, hasFileSystemSupport,
                   loadJob, call>>

(* HandlesSpec: the page of the file-system-handle revision opens on a     *)
(* store of at most MaxTemplateHandles template handles the page may read; *)
(* it loads them while the user chooses template files, clicks templates   *)
(* of the list and deletes them.                                           *)

ReadableHandles ==
    UNION {{[i \in 1..n |-> [id |-> TemplateHandleId(i), handle |-> hs[i]]] :
               hs \in [1..n -> {Handle(GoodDocx, "granted"),
                                Handle(OtherDocx, "granted")}]} :
           n \in 0..MaxTemplateHandles}

HandlesInit ==
    /\ AppInit
    /\ localStorage = NULL
    /\ fileHandles \in ReadableHandles
    /\ call = IdleCall

HandlesNext ==
    \/ \E supported \in BOOLEAN : SupportEffect(supported)
    \/ LoadSavedFiles
    \/ \E opened \in BOOLEAN : HandlesRead(opened)
    \/ LoadHandle
    \/ \E i \in DOMAIN savedTemplates :
          ~PickerOpen /\ LoadTemplate(savedTemplates[i])
    \/ HandleDocxUploadPicker
    \/ \E file \in PickedDocxFiles, aborted \in BOOLEAN : FilePicked(file, aborted)
    \/ \E stored \in BOOLEAN : FileHandleSaved(stored)
    \/ PickedTemplateLoaded
    \/ \E i \in DOMAIN savedTemplates, confirmed \in BOOLEAN :
          DeleteTemplateClick(savedTemplates[i].id, confirmed)
    \/ \E deleted \in BOOLEAN : FileHandleDeleted(deleted)

HandlesSpec == HandlesInit /\ [][HandlesNext]_vars

\* C25: in every reachable state selectedTemplateId is null or the id of an
\* entry of savedTemplates.
C25_SelectedTemplateIsSaved ==
    selectedTemplateId # NullString =>
       \E i \in DOMAIN savedTemplates : savedTemplates[i].id = selectedTemplateId


-----------------------------------------------------------------------------
(* The template active after a file is chosen                              *)

\* C26: when the user has chosen a DOCX file with handleDocxUpload and the
\* file loads, the template of that file is the active one: docxBinary,
\* docxHtml, placeholders and selectedTemplateId are those of the file,
\* whether or not another template was active before.
C26_ChosenFileBecomesActive ==
    [][(/\ PickedTemplateLoaded
        /\ loadTemplateFromHandle(docxJob.handle, docxJob.id).ok)
       => LET template == loadTemplateFromHandle(docxJob.handle, docxJob.id).template
          IN  /\ docxBinary' = template.binary
              /\ docxHtml' = template.html
              /\ placeholders' = template.placeholders
              /\ selectedTemplateId' = docxJob.id
              /\ uploadStatus'.docx]_vars

=============================================================================
